---- MODULE Spec2Model ----
(***************************************************************************)
(* Model of the goblocks application kernel: the service registry and      *)
(* lifecycle orchestrator (app/app.go), the status reporter                *)
(* (appstatus/appstatus.go) and the operations server                      *)
(* (statserver/statserver.go), with the API server's Run, HandleFunc and   *)
(* request pipeline (httpserver: middlewares, metrics, connection watcher).*)
(*                                                                         *)
(* Strings that the code inspects character by character (service names)   *)
(* are sequences of one-character strings.                                 *)
(***************************************************************************)
EXTENDS Integers, Sequences, FiniteSets, TLC

\* ------------------------------------------------------------------------
\* Bounds
\* ------------------------------------------------------------------------
MaxRegCalls == 2    \* RegisterService calls made before Run
MaxNameLen == 2     \* length of the generated service names (SpecReg)
MaxRequests == 2    \* requests read from the connections (SpecHttp)
MaxPieces == 3      \* pieces an input buffer of ParseEnvVars is made of (SpecEnv)
MaxPolicyAttempts == 3  \* largest Policy.MaxAttempts a caller sets (SpecRetry)
MaxRecords == 3     \* records the largest cache holds (SpecCache)
MaxUse == 2         \* largest UseCount an entry reaches (SpecCache)
MaxLimit == 3       \* largest limit the callers of LimitMap.Inc pass (SpecLimitMap)

\* ------------------------------------------------------------------------
\* Inputs
\* ------------------------------------------------------------------------
AppName == <<"a", "p", "p">>
NameS == <<"s">>
NameT == <<"t", "_">>
Name1bad == <<"1", "b", "a", "d">>
NameEmpty == << >>
NameHasDash == <<"h", "a", "s", "-", "d", "a", "s", "h">>

\* registrations made in the lifecycle specification
RunNames == {NameS, NameT}
RunCfg == [ptr |-> TRUE, obj |-> "c1"]
RunFactory == "fA"

\* names registered in the construction specification
BuildNames == {NameS, NameT, AppName}

\* characters the generated names are built from, and the generated names
NameChars == {"a", "_", "1", "-"}
RECURSIVE SeqsUpTo(_, _)
SeqsUpTo(S, n) ==
    IF n = 0 THEN {<< >>}
    ELSE LET shorter == SeqsUpTo(S, n - 1)
         IN  shorter \cup {Append(s, c) : s \in {t \in shorter : Len(t) = n - 1}, c \in S}
RegNames == SeqsUpTo(NameChars, MaxNameLen) \cup {Name1bad, NameEmpty, NameHasDash, AppName}

\* a config argument: a caller-owned object passed by pointer or by value
CfgObjs == {"c1", "c2"}
CfgArgs == [ptr : BOOLEAN, obj : CfgObjs]
Factories == {"fA", "fB"}

\* the endpoints the services built by a factory declare (GetHandlers)
GetHandlers(factory) == IF factory = "fA" THEN <<"e1", "e2">> ELSE <<"e1">>

VARIABLES
    \* application (app/app.go)
    serviceDefs,    \* registry: name -> registeredService
    regCalls,       \* the RegisterService calls made so far, with their results
    appPc,          \* position of the orchestrator's goroutine
    todo,           \* names the "create services" loop has not visited yet
    services,       \* name -> service instance built by its factory
    factoryCalls,   \* the factory invocations made so far
    launchTodo,     \* names the "run services" loop has not visited yet
    cur,            \* the service whose handlers are being added
    routes,         \* routes registered on the router: <<service, endpoint>>
    ctxParentDone,  \* the context of context.WithCancel is cancelled
    ctxDone,        \* the errgroup's derived context is cancelled
    egErr,          \* the first non-nil error the errgroup recorded
    svcPc,          \* name -> position of the goroutine running service.Run
                    \*   ("failed": Run returned a non-nil error)
    httpSrv,        \* the API http.Server and its listener
    httpPc,         \* position of httpserver.Run
    httpRet,        \* what httpserver.Run returned
    sigPc,          \* position of the signal watcher
    sigCh,          \* a signal sits in the watcher's channel
    sigTaken,       \* the watcher received a signal
    logs,           \* messages the orchestrator logged
    apiReq,         \* the last request dispatched by the API router
    probeView,      \* what /ready probes can have seen around the signal:
                    \*   "none" no signal yet, "ready" 200 when the signal was received,
                    \*   "early" no 200 then, "served" 500 was on offer after the signal
    \* status reporter (appstatus/appstatus.go)
    ready,          \* statusReporter.ready; its domain is the registered names
    alive,          \* statusReporter.alive
    lastCall,       \* per registered name, the last of Ready/NotReady called on its reporter
    deadCalled,     \* some reporter's Dead was called
    lastGet,        \* result of the last GetServiceReporter call
    \* operations server (statserver/statserver.go)
    statSrv,        \* the ops http.Server
    statPc,         \* position of statServer.Run
    statGo,         \* position of the goroutine running ListenAndServe
    statSend,       \* the value that goroutine sends on errCh
    statRet,        \* what statServer.Run returned
    opsReq,         \* the probe client's current request to the ops port
    readyUps,       \* how often IsReady turned true under a listening ops server before
                    \*   any signal was delivered: "none", "once" or "again" ("off": the
                    \*   specification does not count)
    \* API server's request pipeline (httpserver)
    httpCfg,        \* httpserver.cfg: OpenConnLimit, Token and the limiter's burst
    currentlyOpen,  \* ConnectionWatcher.currentlyOpen
    connState,      \* connection -> its http.ConnState ("none": not accepted yet)
    limiterTokens,  \* tokens left in the rate limiter's bucket
    req,            \* connection -> the request being served on it, or the last one
                    \*   (n: the count the connection limiter rejected it on)
    latency,        \* <<service, endpoint>> -> observations of request_latency
    errorsCounter,  \* <<service, endpoint>> -> value of error_count
    served,         \* requests read from connections so far
    \* connection watcher's metrics (limitmap)
    cwMetrics,      \* incoming_connections gauge, opened and closed counters
    cwCall,         \* connection -> the OnStateChange call in progress for it
    \* configuration binding (app/config_reader.go, conftool)
    confCfg,        \* target ("app" or a service's name) -> its config struct
    confSrc,        \* the source bound: its kind and the sections it holds
    confRes,        \* the binding's position and its error: the section and the
                    \*   fields the error names (no fields: nil)
    \* library packages
    envCall,        \* conftool.ParseEnvVars: the environment, the buffer and the
                    \*   position of the call in progress
    retryCall,      \* retry.Policy.Run: the policy, the attempt and what it returned
    mcache,         \* memcache.cache: maxSize, size and storage
    cmgr,           \* containermanager: the registry and the Execute calls
    lmap            \* limitmap.LimitMap: the map and the Inc/Dec calls made

regVars == <<serviceDefs, regCalls>>
statusVars == <<ready, alive, lastCall, deadCalled, lastGet>>
statVars == <<statSrv, statPc, statGo, statSend, statRet>>
ctxVars == <<ctxParentDone, ctxDone, egErr>>
httpVars == <<httpSrv, httpPc, httpRet>>
sigVars == <<sigPc, sigCh, sigTaken>>
buildVars == <<todo, services, factoryCalls>>
loopVars == <<launchTodo, cur, routes>>
vars == <<serviceDefs, regCalls, appPc, todo, services, factoryCalls, launchTodo, cur,
          routes, ctxParentDone, ctxDone, egErr, svcPc, httpSrv, httpPc, httpRet, sigPc,
          sigCh, sigTaken, logs, apiReq, probeView, ready, alive, lastCall,
          deadCalled, lastGet, statSrv, statPc, statGo, statSend, statRet, opsReq,
          readyUps, httpCfg, currentlyOpen, connState, limiterTokens, req, latency,
          errorsCounter, served, cwMetrics, cwCall, confCfg, confSrc, confRes, envCall,
          retryCall, mcache, cmgr, lmap>>
ghostVars == <<probeView, readyUps>>
pipeVars == <<httpCfg, currentlyOpen, connState, limiterTokens, req, latency, errorsCounter,
              served>>
watchVars == <<cwMetrics, cwCall>>
confVars == <<confCfg, confSrc, confRes>>
libVars == <<envCall, retryCall, mcache, cmgr, lmap>>
sideVars == <<watchVars, confVars, libVars>>

\* ------------------------------------------------------------------------
\* Service names (app.go:66-69)
\* ------------------------------------------------------------------------
Letters == {"a", "b", "c", "d", "e", "f", "g", "h", "i", "j", "k", "l", "m",
            "n", "o", "p", "q", "r", "s", "t", "u", "v", "w", "x", "y", "z",
            "A", "B", "C", "D", "E", "F", "G", "H", "I", "J", "K", "L", "M",
            "N", "O", "P", "Q", "R", "S", "T", "U", "V", "W", "X", "Y", "Z"}

\* s[i..j] is a match of [a-zA-Z][a-zA-Z_]*
MatchesAt(s, i, j) ==
    /\ s[i] \in Letters
    /\ \A k \in (i + 1)..j : s[k] \in Letters \cup {"_"}

\* the whole of s matches [a-zA-Z][a-zA-Z_]*
FullMatch(s) == Len(s) >= 1 /\ MatchesAt(s, 1, Len(s))

\* regexp.MatchString: some substring of s matches the (unanchored) expression
MatchString(s) == \E i \in 1..Len(s) : \E j \in i..Len(s) : MatchesAt(s, i, j)

\* ------------------------------------------------------------------------
\* Status reporter (appstatus/appstatus.go)
\* ------------------------------------------------------------------------
Extend(f, k, v) == [x \in DOMAIN f \cup {k} |-> IF x = k THEN v ELSE f[x]]

\* statusReporter.IsReady: no entry of the map is false
IsReady == \A n \in DOMAIN ready : ready[n]

\* statusReporter.IsAlive
IsAlive == alive

\* GetServiceReporter resetting the readiness of a name it refuses
GetServiceReporterResets(name) ==
    IF name \in DOMAIN ready
    THEN /\ lastGet' = [name |-> name, err |-> "errAlreadyRegistered"]
         /\ ready' = [ready EXCEPT ![name] = FALSE]
         /\ UNCHANGED <<alive, lastCall, deadCalled>>
    ELSE /\ ready' = Extend(ready, name, FALSE)
         /\ lastCall' = Extend(lastCall, name, "none")
         /\ lastGet' = [name |-> name, err |-> "nil"]
         /\ UNCHANGED <<alive, deadCalled>>

\* statusReporter.GetServiceReporter
GetServiceReporter(name) ==
    IF name \in DOMAIN ready
    THEN /\ lastGet' = [name |-> name, err |-> "errAlreadyRegistered"]
         /\ UNCHANGED <<ready, alive, lastCall, deadCalled>>
    ELSE /\ ready' = Extend(ready, name, FALSE)
         /\ lastCall' = Extend(lastCall, name, "none")
         /\ lastGet' = [name |-> name, err |-> "nil"]
         /\ UNCHANGED <<alive, deadCalled>>

\* Ready setting the alive bit as well
ReadyRevives(name) ==
    /\ name \in DOMAIN ready
    /\ ready' = [ready EXCEPT ![name] = TRUE]
    /\ lastCall' = [lastCall EXCEPT ![name] = "Ready"]
    /\ alive' = TRUE
    /\ UNCHANGED <<deadCalled, lastGet>>

\* serviceReporter.Ready, called on the reporter registered for name
Ready(name) ==
    /\ name \in DOMAIN ready
    /\ ready' = [ready EXCEPT ![name] = TRUE]
    /\ lastCall' = [lastCall EXCEPT ![name] = "Ready"]
    /\ UNCHANGED <<alive, deadCalled, lastGet>>

\* NotReady with the value of Ready
NotReadyStoresTrue(name) ==
    /\ name \in DOMAIN ready
    /\ ready' = [ready EXCEPT ![name] = TRUE]
    /\ lastCall' = [lastCall EXCEPT ![name] = "NotReady"]
    /\ UNCHANGED <<alive, deadCalled, lastGet>>

\* serviceReporter.NotReady
NotReady(name) ==
    /\ name \in DOMAIN ready
    /\ ready' = [ready EXCEPT ![name] = FALSE]
    /\ lastCall' = [lastCall EXCEPT ![name] = "NotReady"]
    /\ UNCHANGED <<alive, deadCalled, lastGet>>

\* serviceReporter.Dead
Dead(name) ==
    /\ name \in DOMAIN ready
    /\ alive' = FALSE
    /\ deadCalled' = TRUE
    /\ UNCHANGED <<ready, lastCall, lastGet>>

\* ------------------------------------------------------------------------
\* Registration (app.go:65-88)
\* ------------------------------------------------------------------------
\* the reference the caller holds on the config object it passes
CallerRef(cfg) == [at |-> "caller", obj |-> cfg.obj, n |-> 0]

\* vcfg that copies every argument, pointers included
CanonicalAlwaysCopy(cfg, n) == [at |-> "heap", obj |-> cfg.obj, n |-> n]

\* vcfg: a pointer argument is kept, a value is copied into a new allocation
Canonical(cfg, n) ==
    IF cfg.ptr THEN CallerRef(cfg) ELSE [at |-> "heap", obj |-> cfg.obj, n |-> n]

RegisterService(name, cfg, factory) ==
    /\ appPc = "init"
    /\ Len(regCalls) < MaxRegCalls
    /\ IF ~MatchString(name)
       THEN /\ regCalls' = Append(regCalls, [name |-> name, cfg |-> cfg, factory |-> factory,
                                             err |-> "errInvalidServiceName"])
            /\ UNCHANGED serviceDefs
       ELSE /\ serviceDefs' = Extend(serviceDefs, name,
                                     [Name |-> name,
                                      Config |-> Canonical(cfg, Len(regCalls) + 1),
                                      Factory |-> factory])
            /\ regCalls' = Append(regCalls, [name |-> name, cfg |-> cfg, factory |-> factory,
                                             err |-> "nil"])

\* ------------------------------------------------------------------------
\* Operations server (statserver/statserver.go)
\* ------------------------------------------------------------------------
NoReq == [st |-> "idle", path |-> "", code |-> 0]

\* the process is running: no logger.Fatal, not killed by an unhandled signal
Live == appPc \notin {"fatal", "killed"}

\* statServer.Run up to its select: the ListenAndServe goroutine is started
StatRunStart ==
    /\ statPc' = "select"
    /\ statGo' = "serve"
    /\ UNCHANGED <<statSrv, statSend, statRet>>

\* the goroutine: ListenAndServe binds the port and serves
StatListen ==
    /\ Live
    /\ statGo = "serve"
    /\ statSrv = "created"
    /\ statSrv' = "listening"
    /\ UNCHANGED <<statPc, statGo, statSend, statRet>>

\* the goroutine: ListenAndServe returns an error other than ErrServerClosed
\* (the port cannot be bound, or accepting fails)
StatServeFault ==
    /\ Live
    /\ statGo = "serve"
    /\ statSrv \in {"created", "listening"}
    /\ statSrv' = "failed"
    /\ statGo' = "sending"
    /\ statSend' = "err"
    /\ UNCHANGED <<statPc, statRet>>

\* the goroutine: ListenAndServe returns ErrServerClosed after Shutdown
StatServeClosed ==
    /\ Live
    /\ statGo = "serve"
    /\ statSrv = "closed"
    /\ statGo' = "sending"
    /\ statSend' = "nil"
    /\ UNCHANGED <<statSrv, statPc, statRet>>

\* Run's select, case err := <-errCh: the rendezvous with the goroutine's send
StatRunRecv ==
    /\ Live
    /\ statPc = "select"
    /\ statGo = "sending"
    /\ statGo' = "done"
    /\ statPc' = "returned"
    /\ statRet' = statSend
    /\ UNCHANGED <<statSrv, statSend>>

\* Run's select, case <-ctx.Done(): Shutdown is called and closes the listener
StatShutdownBegin ==
    /\ Live
    /\ statPc = "select"
    /\ ctxDone
    /\ statPc' = "shutdown"
    /\ statSrv' = IF statSrv = "failed" THEN "failed" ELSE "closed"
    /\ UNCHANGED <<statGo, statSend, statRet>>

\* Shutdown returns: nil once no request is in flight, the deadline error
\* after its one second bound while one still is
StatShutdownEnd ==
    /\ Live
    /\ statPc = "shutdown"
    /\ statPc' = "returned"
    /\ statRet' = IF opsReq.st = "accepted" THEN "err" ELSE "nil"
    /\ UNCHANGED <<statSrv, statGo, statSend>>

\* a client sends GET path to the ops port
OpsRequest(path) ==
    /\ Live
    /\ opsReq.st # "accepted"
    /\ opsReq' = IF statSrv = "listening"
                 THEN [st |-> "accepted", path |-> path, code |-> 0]
                 ELSE [st |-> "refused", path |-> path, code |-> 0]

\* ReadyHandler answering from the alive bit
ReadyHandlerFromAlive ==
    /\ Live
    /\ opsReq.st = "accepted"
    /\ opsReq.path = "/ready"
    /\ opsReq' = [opsReq EXCEPT !.st = "answered",
                                !.code = IF IsAlive THEN 200 ELSE 500]

\* statServer.ReadyHandler
ReadyHandler ==
    /\ Live
    /\ opsReq.st = "accepted"
    /\ opsReq.path = "/ready"
    /\ opsReq' = [opsReq EXCEPT !.st = "answered",
                                !.code = IF IsReady THEN 200 ELSE 500]

\* statServer.AliveHandler
AliveHandler ==
    /\ Live
    /\ opsReq.st = "accepted"
    /\ opsReq.path = "/alive"
    /\ opsReq' = [opsReq EXCEPT !.st = "answered",
                                !.code = IF IsAlive THEN 200 ELSE 500]

\* ------------------------------------------------------------------------
\* errgroup and the cancellation scope (app.go:259-260)
\* ------------------------------------------------------------------------
\* the group holds no error
NoErr == << >>

\* a group that records the first error without cancelling its context
EgReturnNoCancel(worker, err) ==
    IF err /\ egErr = NoErr
    THEN /\ egErr' = worker
         /\ UNCHANGED <<ctxParentDone, ctxDone>>
    ELSE UNCHANGED <<ctxParentDone, ctxDone, egErr>>

\* a group that cancels its context when any goroutine returns
EgReturnCancelsOnNil(worker, err) ==
    IF egErr = NoErr
    THEN /\ egErr' = IF err THEN worker ELSE NoErr
         /\ ctxDone' = TRUE
         /\ UNCHANGED ctxParentDone
    ELSE UNCHANGED <<ctxParentDone, ctxDone, egErr>>

\* a goroutine of the group returns: the first non-nil error is recorded and
\* cancels the group's context
EgReturn(worker, err) ==
    IF err /\ egErr = NoErr
    THEN /\ egErr' = worker
         /\ ctxDone' = TRUE
         /\ UNCHANGED ctxParentDone
    ELSE UNCHANGED <<ctxParentDone, ctxDone, egErr>>

\* cancel() of a context the group's context is not derived from
CancelParentOnly ==
    /\ ctxParentDone' = TRUE
    /\ UNCHANGED <<ctxDone, egErr>>

\* cancel() of context.WithCancel: the parent and the group's derived context
Cancel ==
    /\ ctxParentDone' = TRUE
    /\ ctxDone' = TRUE
    /\ UNCHANGED egErr

\* after a signal was received, the ops server is listening while IsReady is false
NotReadyWindow == sigTaken /\ statSrv = "listening" /\ ~IsReady

\* every step records whether such a state has been reached, and what a
\* probe was answered when the signal was received
\* the step turns the answer of GET /ready from 500 to 200: the ops server
\* is listening before and after it, and no signal has been delivered
ReadyTurns200 ==
    /\ statSrv = "listening" /\ statSrv' = "listening"
    /\ ~sigCh' /\ ~sigTaken'
    /\ ~IsReady /\ IsReady'

Observe ==
    /\ probeView' = IF NotReadyWindow' THEN "served"
                    ELSE IF sigTaken' /\ ~sigTaken
                         THEN (IF statSrv = "listening" /\ IsReady THEN "ready" ELSE "early")
                         ELSE probeView
    /\ readyUps' = IF readyUps # "off" /\ ReadyTurns200
                   THEN (IF readyUps = "none" THEN "once" ELSE "again")
                   ELSE readyUps

\* ------------------------------------------------------------------------
\* Orchestrator (app.go)
\* ------------------------------------------------------------------------
Register(name, cfg, factory) ==
    /\ RegisterService(name, cfg, factory)
    /\ UNCHANGED <<appPc, buildVars, loopVars, ctxVars, svcPc, httpVars, sigVars, logs,
                   apiReq, statusVars, statVars, opsReq>>
    /\ Observe
    /\ UNCHANGED <<pipeVars, sideVars>>

\* Run up to the "create services" loop: the status register with the
\* orchestrator's own reporter, then both servers (the API listener is bound
\* by NewServer; a failure there is fatal)
RunStart ==
    /\ appPc = "init"
    /\ GetServiceReporter(AppName)
    /\ \/ /\ appPc' = "create"
          /\ httpSrv' = "bound"
          /\ statSrv' = "created"
          /\ todo' = DOMAIN serviceDefs
       \/ /\ appPc' = "fatal"
          /\ UNCHANGED <<httpSrv, statSrv, todo>>
    /\ UNCHANGED <<regVars, services, factoryCalls, loopVars, ctxVars, svcPc, httpPc,
                   httpRet, sigVars, logs, apiReq, statPc, statGo, statSend, statRet,
                   opsReq>>
    /\ Observe
    /\ UNCHANGED <<pipeVars, sideVars>>

\* one iteration of the "create services" loop (map order: any remaining name)
CreateService(name) ==
    /\ appPc = "create"
    /\ name \in todo
    /\ GetServiceReporter(name)
    /\ IF name \in DOMAIN ready
       THEN /\ appPc' = "fatal"
            /\ UNCHANGED buildVars
       ELSE \E ok \in BOOLEAN :
            /\ factoryCalls' = Append(factoryCalls,
                                      [name |-> name,
                                       factory |-> serviceDefs[name].Factory,
                                       cfg |-> serviceDefs[name].Config])
            /\ IF ok
               THEN /\ services' = Extend(services, name,
                                          [factory |-> serviceDefs[name].Factory,
                                           cfg |-> serviceDefs[name].Config])
                    /\ todo' = todo \ {name}
                    /\ UNCHANGED appPc
               ELSE /\ appPc' = "fatal"
                    /\ UNCHANGED <<todo, services>>
    /\ UNCHANGED <<regVars, loopVars, ctxVars, svcPc, httpVars, sigVars, logs, apiReq,
                   statVars, opsReq>>
    /\ Observe
    /\ UNCHANGED <<pipeVars, sideVars>>

\* runEverything: the scope is created and the ops server's Run is started
GoStat ==
    /\ appPc = "create"
    /\ todo = {}
    /\ appPc' = "goHttp"
    /\ StatRunStart
    /\ UNCHANGED <<regVars, buildVars, loopVars, ctxVars, svcPc, httpVars, sigVars, logs,
                   apiReq, statusVars, opsReq>>
    /\ Observe
    /\ UNCHANGED <<pipeVars, sideVars>>

\* the API server's Run is started
GoHttp ==
    /\ appPc = "goHttp"
    /\ appPc' = "loop"
    /\ httpPc' = "select"
    /\ launchTodo' = DOMAIN services
    /\ UNCHANGED <<regVars, buildVars, cur, routes, ctxVars, svcPc, httpSrv, httpRet,
                   sigVars, logs, apiReq, statusVars, statVars, opsReq>>
    /\ Observe
    /\ UNCHANGED <<pipeVars, sideVars>>

\* "run services" loop: addHandlers of the next service begins
LoopAdd(name) ==
    /\ appPc = "loop"
    /\ name \in launchTodo
    /\ appPc' = "adding"
    /\ cur' = name
    /\ UNCHANGED <<regVars, buildVars, launchTodo, routes, ctxVars, svcPc, httpVars,
                   sigVars, logs, apiReq, statusVars, statVars, opsReq>>
    /\ Observe
    /\ UNCHANGED <<pipeVars, sideVars>>

\* the routes HandleFunc adds for a service
RoutesOf(name) ==
    LET hs == GetHandlers(services[name].factory)
    IN  {<<name, hs[i]>> : i \in 1..Len(hs)}

\* addHandlers has registered every handler of the service on the router;
\* the service's Run is started
LoopGo ==
    /\ appPc = "adding"
    /\ routes' = routes \cup RoutesOf(cur)
    /\ svcPc' = Extend(svcPc, cur, "running")
    /\ launchTodo' = launchTodo \ {cur}
    /\ appPc' = "loop"
    /\ UNCHANGED <<regVars, buildVars, cur, ctxVars, httpVars, sigVars, logs, apiReq,
                   statusVars, statVars, opsReq>>
    /\ Observe
    /\ UNCHANGED <<pipeVars, sideVars>>

\* appReporter.Ready()
AppReady ==
    /\ appPc = "loop"
    /\ launchTodo = {}
    /\ Ready(AppName)
    /\ appPc' = "goSig"
    /\ UNCHANGED <<regVars, buildVars, loopVars, ctxVars, svcPc, httpVars, sigVars, logs,
                   apiReq, statVars, opsReq>>
    /\ Observe
    /\ UNCHANGED <<pipeVars, sideVars>>

\* the signal watcher is started (signal.Notify)
GoSig ==
    /\ appPc = "goSig"
    /\ appPc' = "wait"
    /\ sigPc' = "waiting"
    /\ UNCHANGED <<regVars, buildVars, loopVars, ctxVars, svcPc, httpVars, sigCh, sigTaken,
                   logs, apiReq, statusVars, statVars, opsReq>>
    /\ Observe
    /\ UNCHANGED <<pipeVars, sideVars>>

AllReturned ==
    /\ statPc = "returned"
    /\ httpPc = "returned"
    /\ sigPc = "returned"
    /\ \A n \in DOMAIN svcPc : svcPc[n] \in {"returned", "failed"}

\* eg.Wait() returns once every goroutine of the group has returned; it
\* cancels the group's context on the way out
EgWait ==
    /\ appPc = "wait"
    /\ AllReturned
    /\ appPc' = "marking"
    /\ ctxDone' = TRUE
    /\ UNCHANGED <<regVars, buildVars, loopVars, ctxParentDone, egErr, svcPc, httpVars,
                   sigVars, logs, apiReq, statusVars, statVars, opsReq>>
    /\ Observe
    /\ UNCHANGED <<pipeVars, sideVars>>

\* the orchestrator going to sleep without appReporter.NotReady()
MarkNotReadySkipped ==
    /\ appPc = "marking"
    /\ appPc' = "sleeping"
    /\ UNCHANGED <<regVars, buildVars, loopVars, ctxVars, svcPc, httpVars, sigVars, logs,
                   apiReq, statusVars, statVars, opsReq>>
    /\ Observe
    /\ UNCHANGED <<pipeVars, sideVars>>

\* appReporter.NotReady()
MarkNotReady ==
    /\ appPc = "marking"
    /\ NotReady(AppName)
    /\ appPc' = "sleeping"
    /\ UNCHANGED <<regVars, buildVars, loopVars, ctxVars, svcPc, httpVars, sigVars, logs,
                   apiReq, statVars, opsReq>>
    /\ Observe
    /\ UNCHANGED <<pipeVars, sideVars>>

\* time.Sleep(ShutdownDelay) is over: the outcome is logged and Run returns
SleepDone ==
    /\ appPc = "sleeping"
    /\ logs' = logs \cup {IF egErr # NoErr THEN "terminated with error"
                                            ELSE "terminated successfully"}
    /\ appPc' = "returned"
    /\ UNCHANGED <<regVars, buildVars, loopVars, ctxVars, svcPc, httpVars, sigVars, apiReq,
                   statusVars, statVars, opsReq>>
    /\ Observe
    /\ UNCHANGED <<pipeVars, sideVars>>

\* ------------------------------------------------------------------------
\* Workers of the group
\* ------------------------------------------------------------------------
appFrame == <<regVars, appPc, buildVars, loopVars, svcPc, sigVars, logs, apiReq>>

\* ops server: steps of the ListenAndServe goroutine
StatServe ==
    /\ \/ StatListen
       \/ StatServeFault
       \/ StatServeClosed
    /\ UNCHANGED <<appFrame, ctxVars, httpVars, statusVars, opsReq>>
    /\ Observe
    /\ UNCHANGED <<pipeVars, sideVars>>

\* ops server: Run reaches Shutdown
StatCtxDone ==
    /\ StatShutdownBegin
    /\ UNCHANGED <<appFrame, ctxVars, httpVars, statusVars, opsReq>>
    /\ Observe
    /\ UNCHANGED <<pipeVars, sideVars>>

\* ops server: Run returns to the group, which wraps a non-nil error
StatReturn ==
    /\ \/ StatRunRecv
       \/ StatShutdownEnd
    /\ EgReturn(<<"prometheus server">>, statRet' = "err")
    /\ UNCHANGED <<appFrame, httpVars, statusVars, opsReq>>
    /\ Observe
    /\ UNCHANGED <<pipeVars, sideVars>>

\* API server: the goroutine calls Serve on the listener
HttpServe ==
    /\ Live
    /\ httpPc = "select"
    /\ httpSrv = "bound"
    /\ httpSrv' = "serving"
    /\ UNCHANGED <<appFrame, ctxVars, httpPc, httpRet, statusVars, statVars, opsReq>>
    /\ Observe
    /\ UNCHANGED <<pipeVars, sideVars>>

\* API server: Serve returns an error other than ErrServerClosed
HttpServeFault ==
    /\ Live
    /\ httpPc = "select"
    /\ httpSrv \in {"bound", "serving"}
    /\ httpSrv' = "failed"
    /\ UNCHANGED <<appFrame, ctxVars, httpPc, httpRet, statusVars, statVars, opsReq>>
    /\ Observe
    /\ UNCHANGED <<pipeVars, sideVars>>

\* API server: Run's select, case err := <-errCh
HttpRunRecv ==
    /\ Live
    /\ httpPc = "select"
    /\ httpSrv = "failed"
    /\ httpPc' = "returned"
    /\ httpRet' = "err"
    /\ EgReturn(<<"api server">>, TRUE)
    /\ UNCHANGED <<appFrame, httpSrv, statusVars, statVars, opsReq>>
    /\ Observe
    /\ UNCHANGED <<pipeVars, sideVars>>

\* API server: Run's select, case <-ctx.Done(): Shutdown bounded by
\* ShutdownTimeout, whose error is logged; Run returns nil
HttpRunCtxDone ==
    /\ Live
    /\ httpPc = "select"
    /\ ctxDone
    /\ httpPc' = "returned"
    /\ httpRet' = "nil"
    /\ httpSrv' = IF httpSrv = "failed" THEN "failed" ELSE "closed"
    /\ EgReturn(<<"api server">>, FALSE)
    /\ UNCHANGED <<appFrame, statusVars, statVars, opsReq>>
    /\ Observe
    /\ UNCHANGED <<pipeVars, sideVars>>

svcFrame == <<regVars, appPc, buildVars, loopVars, ctxVars, svcPc, httpVars, sigVars, logs,
              apiReq, statVars, opsReq>>

\* a running service reports on its reporter
SvcReady(name) ==
    /\ Live
    /\ name \in DOMAIN svcPc
    /\ svcPc[name] = "running"
    /\ Ready(name)
    /\ UNCHANGED svcFrame
    /\ Observe
    /\ UNCHANGED <<pipeVars, sideVars>>

\* a service's NotReady call that flips the stored value
SvcNotReadyToggles(name) ==
    /\ Live
    /\ name \in DOMAIN svcPc
    /\ svcPc[name] = "running"
    /\ ready' = [ready EXCEPT ![name] = ~ready[name]]
    /\ lastCall' = [lastCall EXCEPT ![name] = "NotReady"]
    /\ UNCHANGED <<alive, deadCalled, lastGet>>
    /\ UNCHANGED svcFrame
    /\ Observe
    /\ UNCHANGED <<pipeVars, sideVars>>

SvcNotReady(name) ==
    /\ Live
    /\ name \in DOMAIN svcPc
    /\ svcPc[name] = "running"
    /\ NotReady(name)
    /\ UNCHANGED svcFrame
    /\ Observe
    /\ UNCHANGED <<pipeVars, sideVars>>

\* service.Run returns, with or without an error, cancelled or not
SvcReturn(name, err) ==
    /\ Live
    /\ name \in DOMAIN svcPc
    /\ svcPc[name] = "running"
    /\ svcPc' = [svcPc EXCEPT ![name] = IF err THEN "failed" ELSE "returned"]
    /\ EgReturn(<<"service", name>>, err)
    /\ UNCHANGED <<regVars, appPc, buildVars, loopVars, httpVars, sigVars, logs, apiReq,
                   statusVars, statVars, opsReq>>
    /\ Observe
    /\ UNCHANGED <<pipeVars, sideVars>>

\* service.Run does not return although its context is cancelled: its
\* goroutine never calls the group's Done
SvcStuck(name) ==
    /\ Live
    /\ name \in DOMAIN svcPc
    /\ svcPc[name] = "running"
    /\ ctxDone
    /\ svcPc' = [svcPc EXCEPT ![name] = "stuck"]
    /\ UNCHANGED <<regVars, appPc, buildVars, loopVars, ctxVars, httpVars, sigVars, logs,
                   apiReq, statusVars, statVars, opsReq>>
    /\ Observe
    /\ UNCHANGED <<pipeVars, sideVars>>

\* INT, TERM or QUIT arrives after signal.Notify: it is queued on the channel
SigDeliver ==
    /\ Live
    /\ sigPc # "none"
    /\ appPc # "returned"
    /\ ~sigCh
    /\ ~sigTaken
    /\ sigCh' = TRUE
    /\ UNCHANGED <<regVars, appPc, buildVars, loopVars, ctxVars, svcPc, httpVars, sigPc,
                   sigTaken, logs, apiReq, statusVars, statVars, opsReq>>
    /\ Observe
    /\ UNCHANGED <<pipeVars, sideVars>>

\* INT, TERM or QUIT arrives before signal.Notify: the runtime's default
\* action ends the process
SigEarly ==
    /\ appPc \in {"create", "goHttp", "loop", "adding", "goSig"}
    /\ sigPc = "none"
    /\ appPc' = "killed"
    /\ UNCHANGED <<regVars, buildVars, loopVars, ctxVars, svcPc, httpVars, sigVars, logs,
                   apiReq, statusVars, statVars, opsReq>>
    /\ Observe
    /\ UNCHANGED <<pipeVars, sideVars>>

\* signal watcher: case signal := <-ch
SigRecv ==
    /\ Live
    /\ sigPc = "waiting"
    /\ sigCh
    /\ sigCh' = FALSE
    /\ sigTaken' = TRUE
    /\ Cancel
    /\ logs' = logs \cup {"signal received", "shutting down"}
    /\ sigPc' = "returned"
    /\ UNCHANGED <<regVars, appPc, buildVars, loopVars, svcPc, httpVars, apiReq, statusVars,
                   statVars, opsReq>>
    /\ Observe
    /\ UNCHANGED <<pipeVars, sideVars>>

\* signal watcher: case <-ctx.Done()
SigCtxDone ==
    /\ Live
    /\ sigPc = "waiting"
    /\ ctxDone
    /\ sigPc' = "returned"
    /\ UNCHANGED <<regVars, appPc, buildVars, loopVars, ctxVars, svcPc, httpVars, sigCh,
                   sigTaken, logs, apiReq, statusVars, statVars, opsReq>>
    /\ Observe
    /\ UNCHANGED <<pipeVars, sideVars>>

\* ------------------------------------------------------------------------
\* Clients
\* ------------------------------------------------------------------------
opsFrame == <<regVars, appPc, buildVars, loopVars, ctxVars, svcPc, httpVars, sigVars, logs,
              apiReq, statusVars, statVars, pipeVars, sideVars>>

Probe(path) == OpsRequest(path) /\ UNCHANGED opsFrame /\ Observe

ServeReady == ReadyHandler /\ UNCHANGED opsFrame /\ Observe

ServeAlive == AliveHandler /\ UNCHANGED opsFrame /\ Observe

\* routes are being added to the router
AddingRoutes == appPc = "adding" \/ (appPc = "loop" /\ launchTodo # {})

\* the API server accepts requests and hands them to the router
CanDispatch == Live /\ httpSrv = "serving"

\* the router dispatches a request for the first endpoint of a service; while
\* HandleFunc is adding that service's routes the lookup races with it
ApiDispatch(name) ==
    /\ CanDispatch
    /\ name \in DOMAIN services
    /\ LET route == <<name, GetHandlers(services[name].factory)[1]>>
       IN  \E res \in {"matched", "notfound"} :
           /\ \/ appPc = "adding" /\ cur = name
              \/ res = (IF route \in routes THEN "matched" ELSE "notfound")
           /\ apiReq' = [res |-> res, racing |-> AddingRoutes]
    /\ UNCHANGED <<regVars, appPc, buildVars, loopVars, ctxVars, svcPc, httpVars, sigVars,
                   logs, statusVars, statVars, opsReq>>
    /\ Observe
    /\ UNCHANGED <<pipeVars, sideVars>>

\* ------------------------------------------------------------------------
\* API server's request pipeline (httpserver): the middlewares NewServer
\* stacks before the router, the router, and instrumentationMiddleware
\* around each service handler
\* ------------------------------------------------------------------------
\* connections the API server accepts
Conns == {"c1", "c2"}

\* cfg.Token values, and values of a request's Api-Token header ("": absent)
Secret == "secret"
Tokens == {"", Secret}
Headers == {"", Secret, "wrong"}

\* cfg.OpenConnLimit and cfg.RateLimit values
Limits == {1, 2, 3}
RateLimits == {1}

\* rate.NewLimiter's burst: int(float64(cfg.RateLimit) * rateLimitBurstRatio)
Burst(rateLimit) == (rateLimit * 12) \div 10

Cfgs == [OpenConnLimit : Limits, Token : Tokens, RateLimit : RateLimits]
IdleCfg == [OpenConnLimit |-> 1, Token |-> "", RateLimit |-> 1]

\* the routes HandleFunc registered: the endpoints of service "s"
Registered == {<<NameS, GetHandlers(RunFactory)[i]>> : i \in 1..Len(GetHandlers(RunFactory))}
NoRoute == <<NameS, "none">>
Targets == Registered \cup {NoRoute}

\* what a handler panics with: panic("boom") raises a string,
\* panic(errors.New("boom")) an error value
PanicMsg == "boom"
PanicValues == {"string", "error"}

\* what a service handler does with a request: it returns a nil error after
\* writing its reply, returns an error with a status code, panics, or takes
\* the connection over; before an error or a panic it may have written
Results ==
    {[kind |-> "ok", wrote |-> TRUE, code |-> 200, value |-> "none"],
     [kind |-> "hijack", wrote |-> FALSE, code |-> 200, value |-> "none"]}
    \cup [kind : {"err"}, wrote : BOOLEAN, code : {200, 400}, value : {"none"}]
    \cup [kind : {"panic"}, wrote : BOOLEAN, code : {0}, value : PanicValues]

\* no panic was captured
NoPanic == [value |-> "none", body |-> [error |-> ""], rid |-> << >>, seenBy |-> << >>]

NoRequest == [phase |-> "none", id |-> 0, hdr |-> "", target |-> NoRoute, n |-> 0,
              handled |-> FALSE, result |-> "none", wrote |-> FALSE, code |-> 0,
              writes |-> << >>, ran |-> << >>, rid |-> << >>, panic |-> NoPanic]

\* httpreply.Reply and http.Error: one WriteHeader and one Write of a body
Reply(writes, by, code) == Append(writes, [by |-> by, code |-> code])

\* the status line the client receives: that of the first WriteHeader
Status(r) == IF r.writes = << >> THEN 200 ELSE r.writes[1].code

PipeInit(cfg) ==
    /\ httpCfg = cfg
    /\ currentlyOpen = 0
    /\ connState = [c \in Conns |-> "none"]
    /\ limiterTokens = Burst(cfg.RateLimit)
    /\ req = [c \in Conns |-> NoRequest]
    /\ latency = [t \in Registered |-> 0]
    /\ errorsCounter = [t \in Registered |-> 0]
    /\ served = 0

\* the watcher's metrics and calls, and the configuration binding, at rest
NoCall == [pc |-> "idle", state |-> "none", v |-> 0]
NoSource == [kind |-> "none", sections |-> << >>]
NoResult == [pc |-> "none", section |-> "", fields |-> << >>]
\* no call of ParseEnvVars made yet (subs: the substitutions a call has made)
NoEnvCall == [pc |-> "none", env |-> [set |-> FALSE, value |-> << >>], input |-> << >>,
              buf |-> << >>, call |-> 0, first |-> << >>, subs |-> {},
              matches |-> [found |-> FALSE, whole |-> << >>, group |-> << >>]]
\* no call of Policy.Run made yet (set: MaxAttempts as the caller gave it;
\* args, outs: the attempt numbers fn was called with and what it returned)
NoRetryCall == [pc |-> "none", set |-> 0, MaxAttempts |-> 0, attempt |-> 0, args |-> << >>,
                outs |-> << >>, sleeps |-> 0, ret |-> "nil"]
\* no entry under a key, and the cache before New
NoRec == [in |-> FALSE, old |-> FALSE, UseCount |-> 0]
NoCache == [pc |-> "none", maxSize |-> 0, size |-> 0,
            storage |-> [k \in {"a", "b", "c"} |-> NoRec]]
\* the goroutines that call Execute, and the container manager before New
\* (td, stop: the teardown and StopContainer goroutines a call started)
Callers == {"x1", "x2"}
NoExecute == [pc |-> "idle", code |-> 0, err |-> "nil", td |-> "none", stop |-> "none"]
NoManager == [pc |-> "none", docker |-> "none", containers |-> [id \in {"c1"} |-> "none"],
              calls |-> [x \in Callers |-> NoExecute]]
\* the LimitMap before New (last: the call made last and what it returned)
NoLimitMap == [pc |-> "none", limit |-> 0,
               lmap |-> [k \in {"k1", "k2"} |-> [in |-> FALSE, n |-> 0]],
               last |-> [op |-> "none", key |-> "", ok |-> TRUE, n |-> 0]]
SideInit ==
    /\ cwMetrics = [gauge |-> 0, opened |-> 0, closed |-> 0]
    /\ cwCall = [c \in Conns |-> NoCall]
    /\ confCfg = << >>
    /\ confSrc = NoSource
    /\ confRes = NoResult
    /\ envCall = NoEnvCall
    /\ retryCall = NoRetryCall
    /\ mcache = NoCache
    /\ cmgr = NoManager
    /\ lmap = NoLimitMap

\* ConnectionWatcher.OnStateChange
OnStateChange(state) ==
    currentlyOpen' = CASE state = "new" -> currentlyOpen + 1
                       [] state \in {"hijacked", "closed"} -> currentlyOpen - 1
                       [] OTHER -> currentlyOpen

\* ConnectionWatcher.Count
Count == currentlyOpen

\* isError counting no error at all
isErrorNever(err) == FALSE

isError(err) == err # "nil"

\* serviceMetrics.ScoreMethod
ScoreMethod(target, err) ==
    /\ errorsCounter' = IF isError(err)
                        THEN [errorsCounter EXCEPT ![target] = @ + 1]
                        ELSE errorsCounter
    /\ latency' = [latency EXCEPT ![target] = @ + 1]

lifeFrame == <<regVars, appPc, buildVars, loopVars, ctxVars, svcPc, httpVars, sigVars, logs,
               apiReq, ghostVars, statusVars, statVars, opsReq>>
pipeFrame == <<lifeFrame, sideVars>>

\* the server accepts a connection
ConnNew(c) ==
    /\ httpSrv = "serving"
    /\ connState[c] \in {"none", "closed"}
    /\ connState' = [connState EXCEPT ![c] = "new"]
    /\ OnStateChange("new")
    /\ UNCHANGED <<httpCfg, limiterTokens, req, latency, errorsCounter, served, pipeFrame>>

\* a connection that serves no request is closed; with it goes the record
\* of its last request
ConnClose(c) ==
    /\ connState[c] \in {"new", "idle"}
    /\ connState' = [connState EXCEPT ![c] = "closed"]
    /\ OnStateChange("closed")
    /\ req' = [req EXCEPT ![c] = NoRequest]
    /\ UNCHANGED <<httpCfg, limiterTokens, latency, errorsCounter, served, pipeFrame>>

\* time passes: the limiter's bucket gains a token
LimiterRefill ==
    /\ limiterTokens < Burst(httpCfg.RateLimit)
    /\ limiterTokens' = limiterTokens + 1
    /\ UNCHANGED <<httpCfg, currentlyOpen, connState, req, latency, errorsCounter, served,
                   pipeFrame>>

\* connLimiterMiddleware's test on the count it read
ConnLimitReached(n) == n >= httpCfg.OpenConnLimit

\* rate.Limiter.Allow
Allow == limiterTokens > 0

\* Authorized accepting every request that carries a token
AuthorizedAnyToken(hdr) == hdr # ""

\* token.Auth.Authorized
Authorized(hdr) == hdr = httpCfg.Token

\* authMiddleware rejects: a provider is configured (cfg.Token is not empty)
\* and it does not authorize the request
AuthRejects(hdr) == httpCfg.Token # "" /\ ~Authorized(hdr)

\* the errorer writing a body after successful handlers too
ErrorerAlways(writes, err, code) == Reply(writes, "instrumentation", code)

\* instrumentationMiddleware's errorer: httpreply.Error when err is not nil
Errorer(writes, err, code) ==
    IF err # "nil" THEN Reply(writes, "instrumentation", code) ELSE writes

\* the wrappers in the order a request passes them: NewServer's
\* connLimiter(rateLimiter(auth(sentryHandler.HandleFunc(panicLogger(router)))))
safetyWrappersRateFirst == <<"rateLimiter", "connLimiter", "auth", "sentry", "panicLogger">>

safetyWrappers == <<"connLimiter", "rateLimiter", "auth", "sentry", "panicLogger">>

\* whether a wrapper answers the request itself instead of calling next
Rejects(layer, n, hdr) ==
    CASE layer = "connLimiter" -> ConnLimitReached(n)
      [] layer = "rateLimiter" -> ~Allow
      [] layer = "auth" -> AuthRejects(hdr)
      [] OTHER -> FALSE

\* rid := r.Context().Value(ContextRequestID); reqID, _ := rid.(string): a
\* context is the function of the values it carries, a request identifier a
\* sequence (the empty string is << >>)
RequestIDOf(ctx) == IF "requestID" \in DOMAIN ctx THEN ctx["requestID"] ELSE << >>

\* err, _ := e.(error): the error a panic value holds, << >> (nil) when the
\* value is not an error
AsError(value) == IF value = "error" THEN <<PanicMsg>> ELSE << >>

\* fmt.Sprintf("%s", err)
Sprintf(err) == IF err = << >> THEN "%!s(<nil>)" ELSE err[1]

\* httpreply.Error's body {"error":"..."}
ErrorBody(err) == [error |-> Sprintf(err)]

\* the layers whose deferred recover sees a handler's panic: panicLogger's
\* recover ends the unwinding and nothing raises the value again
PanicSeenBy == <<"panicLogger">>

\* panic capture that writes no reply
PanicReplyNone(writes) == writes

\* panicLoggerMiddleware's recover: httpreply.Error with status 500
PanicReply(writes) == Reply(writes, "panicLogger", 500)

\* the server reads a request from connection c and calls its Handler: the
\* middlewares in order, then the router; a request that matches a route
\* enters the service handler inside instrumentationMiddleware, which gives
\* it a fresh request identifier (uuid.New) in the context of a new request
ServeHTTP(c, hdr, target) ==
    /\ httpSrv = "serving"
    /\ connState[c] \in {"new", "idle"}
    /\ served < MaxRequests
    /\ served' = served + 1
    /\ OnStateChange("active")
    /\ LET n == Count
           r0 == [NoRequest EXCEPT !.id = served + 1, !.hdr = hdr, !.target = target]
           rejecting == {i \in 1..Len(safetyWrappers) : Rejects(safetyWrappers[i], n, hdr)}
           stop == IF rejecting = {} THEN 0
                   ELSE CHOOSE i \in rejecting : \A j \in rejecting : i <= j
           passed == IF stop = 0 THEN safetyWrappers ELSE SubSeq(safetyWrappers, 1, stop)
           took == \E i \in 1..Len(passed) : passed[i] = "rateLimiter" /\ Allow
           Answer(by, code, ran) ==
               /\ req' = [req EXCEPT ![c] =
                              [r0 EXCEPT !.phase = "done",
                                         !.n = IF by = "connLimiter" THEN n ELSE 0,
                                         !.writes = Reply(<< >>, by, code),
                                         !.ran = ran]]
               /\ connState' = [connState EXCEPT ![c] = "idle"]
       IN  /\ limiterTokens' = IF took THEN limiterTokens - 1 ELSE limiterTokens
           /\ IF stop # 0
              THEN Answer(safetyWrappers[stop],
                          IF safetyWrappers[stop] = "auth" THEN 401 ELSE 429, passed)
              ELSE IF target \notin routes
              THEN Answer("router", 404, passed \o <<"router">>)
              ELSE /\ req' = [req EXCEPT ![c] =
                                  [r0 EXCEPT !.phase = "handler", !.handled = TRUE,
                                             !.ran = passed \o <<"router", "instrumentation",
                                                                  "handler">>,
                                             !.rid = <<served + 1>>]]
                   /\ connState' = [connState EXCEPT ![c] = "active"]
    /\ UNCHANGED <<httpCfg, latency, errorsCounter, pipeFrame>>

\* the service handler of the request on connection c finishes with result
\* out; instrumentationMiddleware scores and writes the error reply, a panic
\* unwinds to panicLoggerMiddleware
HandlerReturns(c, out) ==
    /\ req[c].phase = "handler"
    /\ LET r == req[c]
           own == IF out.wrote THEN Reply(<< >>, "handler", 200) ELSE << >>
           err == IF out.kind = "err" THEN "error" ELSE "nil"
           \* the context of the request panicLoggerMiddleware holds: the one
           \* the server made, which r.WithContext in instrumentation left as
           \* it was
           outer == << >>
           captured == IF out.kind = "panic"
                       THEN [value |-> out.value,
                             body |-> ErrorBody(AsError(out.value)),
                             rid |-> RequestIDOf(outer),
                             seenBy |-> PanicSeenBy]
                       ELSE NoPanic
           Finish(writes) ==
               req' = [req EXCEPT ![c] = [r EXCEPT !.phase = "done", !.result = out.kind,
                                                   !.wrote = out.wrote, !.code = out.code,
                                                   !.writes = writes,
                                                   !.panic = captured]]
       IN  CASE out.kind = "panic" ->
                  /\ Finish(PanicReply(own))
                  /\ connState' = [connState EXCEPT ![c] = "idle"]
                  /\ UNCHANGED <<latency, errorsCounter, currentlyOpen>>
             [] out.kind = "hijack" ->
                  /\ Finish(own)
                  /\ connState' = [connState EXCEPT ![c] = "hijacked"]
                  /\ OnStateChange("hijacked")
                  /\ ScoreMethod(r.target, err)
             [] OTHER ->
                  /\ Finish(Errorer(own, err, out.code))
                  /\ connState' = [connState EXCEPT ![c] = "idle"]
                  /\ ScoreMethod(r.target, err)
                  /\ UNCHANGED currentlyOpen
    /\ UNCHANGED <<httpCfg, limiterTokens, served, pipeFrame>>

\* ------------------------------------------------------------------------
\* Specification of the request pipeline: a serving API server with the
\* routes of service "s", connections, requests and handler results
\* ------------------------------------------------------------------------
InitHttp ==
    /\ serviceDefs = << >>
    /\ regCalls = << >>
    /\ appPc = "init"
    /\ todo = {}
    /\ services = << >>
    /\ factoryCalls = << >>
    /\ launchTodo = {}
    /\ cur = << >>
    /\ routes = Registered
    /\ ctxParentDone = FALSE
    /\ ctxDone = FALSE
    /\ egErr = NoErr
    /\ svcPc = << >>
    /\ httpSrv = "serving"
    /\ httpPc = "select"
    /\ httpRet = "none"
    /\ sigPc = "none"
    /\ sigCh = FALSE
    /\ sigTaken = FALSE
    /\ logs = {}
    /\ apiReq = [res |-> "none", racing |-> FALSE]
    /\ probeView = "none"
    /\ ready = << >>
    /\ alive = TRUE
    /\ lastCall = << >>
    /\ deadCalled = FALSE
    /\ lastGet = [name |-> << >>, err |-> "none"]
    /\ statSrv = "none"
    /\ statPc = "none"
    /\ statGo = "none"
    /\ statSend = "none"
    /\ statRet = "none"
    /\ opsReq = NoReq
    /\ readyUps = "off"
    /\ \E cfg \in Cfgs : PipeInit(cfg)
    /\ SideInit

NextHttp ==
    \/ \E c \in Conns : ConnNew(c)
    \/ \E c \in Conns : ConnClose(c)
    \/ LimiterRefill
    \/ \E c \in Conns, hdr \in Headers, target \in Targets : ServeHTTP(c, hdr, target)
    \/ \E c \in Conns, out \in Results : HandlerReturns(c, out)

SpecHttp == InitHttp /\ [][NextHttp]_vars

\* ------------------------------------------------------------------------
\* Specification of the application lifecycle: registration, Run,
\* runEverything and the workers of the group
\* ------------------------------------------------------------------------
InitLifecycle ==
    /\ serviceDefs = << >>
    /\ regCalls = << >>
    /\ appPc = "init"
    /\ todo = {}
    /\ services = << >>
    /\ factoryCalls = << >>
    /\ launchTodo = {}
    /\ cur = << >>
    /\ routes = {}
    /\ ctxParentDone = FALSE
    /\ ctxDone = FALSE
    /\ egErr = NoErr
    /\ svcPc = << >>
    /\ httpSrv = "none"
    /\ httpPc = "none"
    /\ httpRet = "none"
    /\ sigPc = "none"
    /\ sigCh = FALSE
    /\ sigTaken = FALSE
    /\ logs = {}
    /\ apiReq = [res |-> "none", racing |-> FALSE]
    /\ probeView = "none"
    /\ ready = << >>
    /\ alive = TRUE
    /\ lastCall = << >>
    /\ deadCalled = FALSE
    /\ lastGet = [name |-> << >>, err |-> "none"]
    /\ statSrv = "none"
    /\ statPc = "none"
    /\ statGo = "none"
    /\ statSend = "none"
    /\ statRet = "none"
    /\ opsReq = NoReq
    /\ PipeInit(IdleCfg)
    /\ SideInit

Init == InitLifecycle /\ readyUps = "off"

\* a registration of the lifecycle specification: each name once
RegisterOnce(name) ==
    /\ name \notin DOMAIN serviceDefs
    /\ Register(name, RunCfg, RunFactory)

Next ==
    \/ \E name \in RunNames : RegisterOnce(name)
    \/ RunStart
    \/ \E name \in RunNames : CreateService(name)
    \/ GoStat
    \/ GoHttp
    \/ \E name \in RunNames : LoopAdd(name)
    \/ LoopGo
    \/ AppReady
    \/ GoSig
    \/ EgWait
    \/ MarkNotReady
    \/ SleepDone
    \/ StatServe
    \/ StatCtxDone
    \/ StatReturn
    \/ HttpServe
    \/ HttpServeFault
    \/ HttpRunRecv
    \/ HttpRunCtxDone
    \/ \E name \in RunNames : SvcReady(name)
    \/ \E name \in RunNames : SvcNotReady(name)
    \/ \E name \in RunNames, err \in BOOLEAN : SvcReturn(name, err)
    \/ SigDeliver
    \/ SigEarly
    \/ SigRecv
    \/ SigCtxDone

Spec == Init /\ [][Next]_vars

\* the goroutines of the group take their steps (scheduler fairness); every
\* service's Run returns once the scope is cancelled
Fairness ==
    /\ WF_vars(StatCtxDone)
    /\ WF_vars(StatReturn)
    /\ WF_vars(HttpRunCtxDone)
    /\ WF_vars(SigCtxDone)
    /\ WF_vars(\E name \in RunNames, err \in BOOLEAN : ctxDone /\ SvcReturn(name, err))
    /\ WF_vars(EgWait)
    /\ WF_vars(MarkNotReady)
    /\ WF_vars(SleepDone)

FairSpec == Spec /\ Fairness

\* ------------------------------------------------------------------------
\* The lifecycle with the turns of GET /ready from 500 to 200 counted
\* ------------------------------------------------------------------------
InitReady == InitLifecycle /\ readyUps = "none"

SpecReady == InitReady /\ [][Next]_vars

\* ------------------------------------------------------------------------
\* The lifecycle with services whose Run may ignore the cancellation
\* ------------------------------------------------------------------------
NextStubborn ==
    \/ Next
    \/ \E name \in RunNames : SvcStuck(name)

SpecStubborn == Init /\ [][NextStubborn]_vars

\* ------------------------------------------------------------------------
\* Specification of the name check: RegisterService on generated names
\* ------------------------------------------------------------------------
RegisterName(name) == Register(name, RunCfg, RunFactory)

NextReg == \E name \in RegNames : RegisterName(name)

SpecReg == Init /\ [][NextReg]_vars

\* ------------------------------------------------------------------------
\* Specification of construction: any registrations, then Run up to the
\* point where every service has been built
\* ------------------------------------------------------------------------
NextBuild ==
    \/ \E name \in BuildNames, cfg \in CfgArgs, factory \in Factories :
          Register(name, cfg, factory)
    \/ RunStart
    \/ \E name \in BuildNames : CreateService(name)
    \/ GoStat

SpecBuild == Init /\ [][NextBuild]_vars

\* ------------------------------------------------------------------------
\* Specification of startup with API traffic: the servers and the services
\* are started while a client sends requests to the API port
\* ------------------------------------------------------------------------
RegisterFresh(name, factory) ==
    /\ name \notin DOMAIN serviceDefs
    /\ Register(name, RunCfg, factory)

NextApi ==
    \/ \E name \in RunNames, factory \in Factories : RegisterFresh(name, factory)
    \/ RunStart
    \/ \E name \in RunNames : CreateService(name)
    \/ GoStat
    \/ GoHttp
    \/ \E name \in RunNames : LoopAdd(name)
    \/ LoopGo
    \/ AppReady
    \/ GoSig
    \/ HttpServe
    \/ \E name \in RunNames : ApiDispatch(name)

SpecApi == Init /\ [][NextApi]_vars

\* ------------------------------------------------------------------------
\* Specification of the status register behind the ops server
\* (statserver TestServer): reporters are obtained and called freely while
\* a client probes /ready and /alive
\* ------------------------------------------------------------------------
OpsPaths == {"/ready", "/alive"}

InitStatus ==
    /\ serviceDefs = << >>
    /\ regCalls = << >>
    /\ appPc = "init"
    /\ todo = {}
    /\ services = << >>
    /\ factoryCalls = << >>
    /\ launchTodo = {}
    /\ cur = << >>
    /\ routes = {}
    /\ ctxParentDone = FALSE
    /\ ctxDone = FALSE
    /\ egErr = NoErr
    /\ svcPc = << >>
    /\ httpSrv = "none"
    /\ httpPc = "none"
    /\ httpRet = "none"
    /\ sigPc = "none"
    /\ sigCh = FALSE
    /\ sigTaken = FALSE
    /\ logs = {}
    /\ apiReq = [res |-> "none", racing |-> FALSE]
    /\ probeView = "none"
    /\ ready = << >>
    /\ alive = TRUE
    /\ lastCall = << >>
    /\ deadCalled = FALSE
    /\ lastGet = [name |-> << >>, err |-> "none"]
    /\ statSrv = "created"
    /\ statPc = "none"
    /\ statGo = "none"
    /\ statSend = "none"
    /\ statRet = "none"
    /\ opsReq = NoReq
    /\ readyUps = "off"
    /\ PipeInit(IdleCfg)
    /\ SideInit

statusFrame == <<regVars, appPc, buildVars, loopVars, ctxVars, svcPc, httpVars, sigVars,
                 logs, apiReq, ghostVars, pipeVars, sideVars, statVars, opsReq>>

CallGetServiceReporter(name) == GetServiceReporter(name) /\ UNCHANGED statusFrame

CallReady(name) == Ready(name) /\ UNCHANGED statusFrame

CallNotReady(name) == NotReady(name) /\ UNCHANGED statusFrame

CallDead(name) == Dead(name) /\ UNCHANGED statusFrame

\* go server.Run(ctx)
TestRun ==
    /\ statPc = "none"
    /\ StatRunStart
    /\ UNCHANGED <<appFrame, ctxVars, httpVars, statusVars, opsReq, ghostVars, pipeVars, sideVars>>

\* cancel()
TestCancel ==
    /\ ~ctxDone
    /\ Cancel
    /\ UNCHANGED <<appFrame, httpVars, statusVars, statVars, opsReq, ghostVars, pipeVars, sideVars>>

\* server.Run returns to the test's goroutine
TestRunReturn ==
    /\ \/ StatRunRecv
       \/ StatShutdownEnd
    /\ UNCHANGED <<appFrame, ctxVars, httpVars, statusVars, opsReq, ghostVars, pipeVars, sideVars>>

NextStatus ==
    \/ \E name \in BuildNames : CallGetServiceReporter(name)
    \/ \E name \in BuildNames : CallReady(name)
    \/ \E name \in BuildNames : CallNotReady(name)
    \/ \E name \in BuildNames : CallDead(name)
    \/ TestRun
    \/ TestCancel
    \/ StatServe
    \/ StatCtxDone
    \/ TestRunReturn
    \/ \E path \in OpsPaths : Probe(path)
    \/ ServeReady
    \/ ServeAlive

SpecStatus == InitStatus /\ [][NextStatus]_vars

\* ------------------------------------------------------------------------
\* API server's Run (httpserver.Run): the Serve goroutine, the select on
\* errCh and ctx.Done(), and Shutdown bounded by cfg.ShutdownTimeout
\* ------------------------------------------------------------------------
runFrame == <<regVars, appPc, buildVars, loopVars, ctxParentDone, egErr, svcPc, sigVars,
              apiReq, ghostVars, statusVars, statVars, opsReq, pipeVars, sideVars>>

\* Run is called with a context that is not cancelled: on the server NewServer
\* made, or again on a server an earlier Run left closed or failed
ApiRunStart ==
    /\ httpPc \in {"none", "returned"}
    /\ httpPc' = "select"
    /\ httpRet' = "none"
    /\ ctxDone' = FALSE
    /\ UNCHANGED <<httpSrv, logs, runFrame>>

\* the goroutine's s.server.Serve(s.listener) starts accepting
ApiServe ==
    /\ httpPc = "select"
    /\ httpSrv = "bound"
    /\ httpSrv' = "serving"
    /\ UNCHANGED <<httpPc, httpRet, ctxDone, logs, runFrame>>

\* Serve returns an error other than ErrServerClosed into errCh
ApiServeFault ==
    /\ httpPc = "select"
    /\ httpSrv \in {"bound", "serving"}
    /\ httpSrv' = "failed"
    /\ UNCHANGED <<httpPc, httpRet, ctxDone, logs, runFrame>>

\* the caller cancels Run's context
ApiCancel ==
    /\ httpPc = "select"
    /\ ~ctxDone
    /\ ctxDone' = TRUE
    /\ UNCHANGED <<httpVars, logs, runFrame>>

\* case err := <-errCh: Serve on a closed server returned ErrServerClosed
\* (Run returns nil), or Serve failed (Run returns the wrapped error)
ApiRunRecv ==
    /\ httpPc = "select"
    /\ httpSrv \in {"closed", "failed"}
    /\ httpPc' = "returned"
    /\ httpRet' = IF httpSrv = "closed" THEN "nil" ELSE "err"
    /\ logs' = IF httpSrv = "closed" THEN logs \cup {"server closed"} ELSE logs
    /\ UNCHANGED <<httpSrv, ctxDone, runFrame>>

\* case <-ctx.Done(): Shutdown closes the listener and starts waiting for
\* the connections
ApiShutdownBegin ==
    /\ httpPc = "select"
    /\ ctxDone
    /\ httpPc' = "shutdown"
    /\ httpSrv' = IF httpSrv \in {"bound", "serving"} THEN "draining" ELSE httpSrv
    /\ UNCHANGED <<httpRet, ctxDone, logs, runFrame>>

\* a Run that hands Shutdown's error to its caller
ShutdownResultPropagated(err) == IF err THEN "err" ELSE "nil"

\* what Run returns after Shutdown returned err: the error is logged only
ShutdownResult(err) == "nil"

\* Shutdown returns: nil once every connection is closed, the deadline's
\* error when cfg.ShutdownTimeout passes while a connection is neither idle
\* nor closed; Run logs the error and returns
ApiShutdownEnd ==
    /\ httpPc = "shutdown"
    /\ \E err \in BOOLEAN :
          /\ IF err
             THEN \E c \in Conns : connState[c] \in {"new", "active"}
             ELSE \A c \in Conns : connState[c] \notin {"new", "active", "idle"}
          /\ logs' = IF err THEN logs \cup {"failed to shutdown server"} ELSE logs
          /\ httpRet' = ShutdownResult(err)
    /\ httpPc' = "returned"
    /\ httpSrv' = IF httpSrv = "draining" THEN "closed" ELSE httpSrv
    /\ UNCHANGED <<ctxDone, runFrame>>

\* ------------------------------------------------------------------------
\* Specification of the API server's Run: a server made by NewServer with
\* the routes of service "s", connections with requests that carry no token
\* and whose handlers succeed, Run and the cancellation of Run's context
\* ------------------------------------------------------------------------
RunHttpCfg == [OpenConnLimit |-> 3, Token |-> "", RateLimit |-> 2]

InitApiRun ==
    /\ serviceDefs = << >>
    /\ regCalls = << >>
    /\ appPc = "init"
    /\ todo = {}
    /\ services = << >>
    /\ factoryCalls = << >>
    /\ launchTodo = {}
    /\ cur = << >>
    /\ routes = Registered
    /\ ctxParentDone = FALSE
    /\ ctxDone = FALSE
    /\ egErr = NoErr
    /\ svcPc = << >>
    /\ httpSrv = "bound"
    /\ httpPc = "none"
    /\ httpRet = "none"
    /\ sigPc = "none"
    /\ sigCh = FALSE
    /\ sigTaken = FALSE
    /\ logs = {}
    /\ apiReq = [res |-> "none", racing |-> FALSE]
    /\ probeView = "none"
    /\ ready = << >>
    /\ alive = TRUE
    /\ lastCall = << >>
    /\ deadCalled = FALSE
    /\ lastGet = [name |-> << >>, err |-> "none"]
    /\ statSrv = "none"
    /\ statPc = "none"
    /\ statGo = "none"
    /\ statSend = "none"
    /\ statRet = "none"
    /\ opsReq = NoReq
    /\ readyUps = "off"
    /\ PipeInit(RunHttpCfg)
    /\ SideInit

NextApiRun ==
    \/ ApiRunStart
    \/ ApiServe
    \/ ApiServeFault
    \/ ApiCancel
    \/ ApiRunRecv
    \/ ApiShutdownBegin
    \/ ApiShutdownEnd
    \/ \E c \in Conns : ConnNew(c)
    \/ \E c \in Conns : ConnClose(c)
    \/ LimiterRefill
    \/ \E c \in Conns, target \in Targets : ServeHTTP(c, "", target)
    \/ \E c \in Conns, out \in {r \in Results : r.kind = "ok"} : HandlerReturns(c, out)

SpecApiRun == InitApiRun /\ [][NextApiRun]_vars

\* ------------------------------------------------------------------------
\* Connection watcher (limitmap.ConnectionWatcher): OnStateChange at the
\* grain of its memory operations. The server calls the hook with StateNew
\* from its accept loop and with the later states from each connection's
\* own goroutine, so calls for different connections overlap
\* ------------------------------------------------------------------------
watchFrame == <<lifeFrame, confVars, libVars, httpCfg, limiterTokens, req, latency, errorsCounter,
                served>>

\* the states the server may move connection c to
NextStates(c) ==
    CASE connState[c] = "none" -> {"new"}
      [] connState[c] = "new" -> {"active", "closed"}
      [] connState[c] = "active" -> {"idle", "hijacked", "closed"}
      [] connState[c] = "idle" -> {"active", "closed"}
      [] OTHER -> {}

\* OnStateChange(conn, state) is entered; for StateNew, StateHijacked and
\* StateClosed its first operation is atomic.AddInt64(&cw.currentlyOpen, ...),
\* for the other states the switch has no case and the call returns
WatchEnter(c, state) ==
    /\ httpSrv = "serving"
    /\ cwCall[c].pc = "idle"
    /\ state \in NextStates(c)
    /\ state = "new" => \A d \in Conns : cwCall[d].state # "new"
    /\ connState' = [connState EXCEPT ![c] = state]
    /\ OnStateChange(state)
    /\ cwCall' = IF state \in {"new", "hijacked", "closed"}
                 THEN [cwCall EXCEPT ![c] = [pc |-> "added", state |-> state,
                                             v |-> currentlyOpen']]
                 ELSE cwCall
    /\ UNCHANGED <<cwMetrics, watchFrame>>

\* incomingConnectionsGauge.Set(float64(v)) with the value AddInt64 returned
WatchSet(c) ==
    /\ cwCall[c].pc = "added"
    /\ cwMetrics' = [cwMetrics EXCEPT !.gauge = cwCall[c].v]
    /\ cwCall' = [cwCall EXCEPT ![c].pc = "set"]
    /\ UNCHANGED <<currentlyOpen, connState, watchFrame>>

\* incomingConnectionsOpened.Inc() or incomingConnectionsClosed.Inc(); the
\* call returns
WatchInc(c) ==
    /\ cwCall[c].pc = "set"
    /\ cwMetrics' = IF cwCall[c].state = "new"
                    THEN [cwMetrics EXCEPT !.opened = @ + 1]
                    ELSE [cwMetrics EXCEPT !.closed = @ + 1]
    /\ cwCall' = [cwCall EXCEPT ![c] = NoCall]
    /\ UNCHANGED <<currentlyOpen, connState, watchFrame>>

\* ------------------------------------------------------------------------
\* Specification of the connection watcher: a serving API server whose
\* connections each go through their states once
\* ------------------------------------------------------------------------
InitWatch == InitHttp /\ httpCfg = IdleCfg

NextWatch ==
    \/ \E c \in Conns, state \in {"new", "active", "idle", "hijacked", "closed"} :
          WatchEnter(c, state)
    \/ \E c \in Conns : WatchSet(c)
    \/ \E c \in Conns : WatchInc(c)

SpecWatch == InitWatch /\ [][NextWatch]_vars

\* ------------------------------------------------------------------------
\* conftool.DefaultsAndRequired (conftool.go). A struct is the sequence of
\* its fields; a field carries its name, kind, its required and default
\* tags, its value (str for a string, num for an int, flag for a bool, items
\* for a slice) and, for a struct, its own fields
\* ------------------------------------------------------------------------
Field(name, kind, required, hasDefault, default, str, num, fields) ==
    [name |-> name, kind |-> kind, required |-> required, hasDefault |-> hasDefault,
     default |-> default, str |-> str, num |-> num, flag |-> FALSE, items |-> << >>,
     fields |-> fields]

\* isFieldRequired: the tag required:"true"
isFieldRequired(f) == f.required = "true"

\* a test for emptiness that every field passes
isFieldEmptyAlways(f) == TRUE

\* isFieldEmpty: a slice is nil or of length 0; any other field holds the
\* zero value of its type
isFieldEmpty(f) ==
    CASE f.kind = "slice" -> Len(f.items) = 0
      [] f.kind = "string" -> f.str = ""
      [] f.kind = "bool" -> f.flag = FALSE
      [] OTHER -> f.num = 0

\* strconv.ParseInt(s, 10, 64): <<n>>, or << >> for a syntax error
ParseInt(s) == CASE s = "5" -> <<5>> [] s = "0" -> <<0>> [] OTHER -> << >>

\* time.ParseDuration(s) in nanoseconds: <<n>>, or << >> for an error
ParseDuration(s) == CASE s = "1s" -> <<1000000000>> [] OTHER -> << >>

\* strconv.ParseBool(s): <<b>>, or << >> for an error
ParseBool(s) == CASE s = "true" -> <<TRUE>> [] s = "false" -> <<FALSE>> [] OTHER -> << >>

\* a setField that leaves every field as it is
setFieldKeeps(f, defaultValue) == f

\* setField: a string takes the tag as it is, an int the tag parsed as a
\* decimal number or else as a duration, a bool the tag parsed as a bool; a
\* tag that does not parse leaves the field as it was, and so does a field
\* of a kind the switch has no case for (a slice)
setField(f, defaultValue) ==
    IF f.kind = "string" THEN [f EXCEPT !.str = defaultValue]
    ELSE IF f.kind = "bool"
         THEN IF ParseBool(defaultValue) # << >>
              THEN [f EXCEPT !.flag = ParseBool(defaultValue)[1]] ELSE f
    ELSE IF f.kind # "int" THEN f
    ELSE IF ParseInt(defaultValue) # << >>
         THEN [f EXCEPT !.num = ParseInt(defaultValue)[1]]
    ELSE IF ParseDuration(defaultValue) # << >>
         THEN [f EXCEPT !.num = ParseDuration(defaultValue)[1]]
    ELSE f

\* defsAndReqs: the struct after the defaults were set, and the names of the
\* required fields that are missing; a name is the sequence of its parts,
\* fmt.Sprintf("%s.%s", name, d) puts the parent's name in front
RECURSIVE defsAndReqs(_)
defsAndReqs(cfg) ==
    IF cfg = << >> THEN [cfg |-> << >>, reqs |-> << >>]
    ELSE LET f == Head(cfg)
             dive == defsAndReqs(f.fields)
             one == CASE f.kind = "struct" ->
                           [field |-> [f EXCEPT !.fields = dive.cfg],
                            reqs |-> [i \in 1..Len(dive.reqs) |-> <<f.name>> \o dive.reqs[i]]]
                      [] f.kind # "struct" /\ ~isFieldEmpty(f) ->
                           [field |-> f, reqs |-> << >>]
                      [] f.kind # "struct" /\ isFieldEmpty(f) /\ ~f.hasDefault ->
                           [field |-> f,
                            reqs |-> IF isFieldRequired(f) THEN << <<f.name>> >> ELSE << >>]
                      [] OTHER ->
                           [field |-> setField(f, f.default), reqs |-> << >>]
             rest == defsAndReqs(Tail(cfg))
         IN  [cfg |-> <<one.field>> \o rest.cfg, reqs |-> one.reqs \o rest.reqs]

\* DefaultsAndRequired: the struct is changed in place; the error lists the
\* missing names (nil: none)
DefaultsAndRequired(cfg) == defsAndReqs(cfg)

\* the structs DefaultsAndRequired is called on: a string field, an int
\* field and a nested struct with a string field, with every combination of
\* tags and of empty and set values
RequiredTags == {"", "true", "false"}
StringFields(name) ==
    {Field(name, "string", r, h, IF h THEN "info" ELSE "", v, 0, << >>) :
        r \in RequiredTags, h \in BOOLEAN, v \in {"", "x"}}
IntFields(name) ==
    {Field(name, "int", r, d # "", d, "", v, << >>) :
        r \in RequiredTags, d \in {"", "5", "1s", "abc"}, v \in {0, 7}}
ConfStructs ==
    {<<a, b, Field("TLS", "struct", "", FALSE, "", "", 0, <<c>>)>> :
        a \in StringFields("Name"), b \in IntFields("Port"), c \in StringFields("Cert")}

\* structs with a bool, a slice, a string and an int field, each zero or set
BoolFields(name) ==
    {[Field(name, "bool", r, d # "", d, "", 0, << >>) EXCEPT !.flag = v] :
        r \in {"", "true"}, d \in {"", "true", "yes"}, v \in BOOLEAN}
SliceFields(name) ==
    {[Field(name, "slice", r, d # "", d, "", 0, << >>) EXCEPT !.items = v] :
        r \in {"", "true"}, d \in {"", "x"}, v \in {<< >>, <<"y">>}}
ZeroStructs ==
    {<<a, b, c, d>> :
        a \in BoolFields("Debug"), b \in SliceFields("Hosts"),
        c \in {f \in StringFields("Name") : f.required # "false"},
        d \in {f \in IntFields("Port") : f.required # "false" /\ f.default # "1s"}}

confFrame == <<lifeFrame, pipeVars, watchVars, libVars>>

\* cfg := &Config{...}: the caller makes the struct
MakeConfig(cfg) ==
    /\ confRes.pc = "none"
    /\ confCfg' = cfg
    /\ confRes' = [confRes EXCEPT !.pc = "built"]
    /\ UNCHANGED <<confSrc, confFrame>>

\* err := conftool.DefaultsAndRequired(cfg)
CallDefaultsAndRequired ==
    /\ confRes.pc = "built"
    /\ confSrc.kind = "none"
    /\ LET r == DefaultsAndRequired(confCfg)
       IN  /\ confCfg' = r.cfg
           /\ confRes' = [pc |-> "done", section |-> "", fields |-> r.reqs]
    /\ UNCHANGED <<confSrc, confFrame>>

\* ------------------------------------------------------------------------
\* Configuration binding (app/config_reader.go): the application's config
\* and the configs of the registered services are bound from a YAML document
\* or from an injected struct
\* ------------------------------------------------------------------------
\* the targets: the application's config under "app", and the configs the
\* services "s" and "t" were registered with
ConfServices == <<"s", "t">>
AppStruct == <<Field("LogLevel", "string", "", TRUE, "info", "", 0, << >>)>>
SvcStruct == <<Field("Port", "int", "", TRUE, "5", "", 0, << >>),
               Field("Key", "string", "true", FALSE, "", "", 0, << >>)>>

\* the sources: for each target its section may be missing; a section gives
\* each field a value or leaves it zero
Sections ==
    {sec \in [{"app", "s", "t"} ->
                 {[present |-> FALSE, LogLevel |-> "", Port |-> 0, Key |-> ""]}
                 \cup [present : {TRUE}, LogLevel : {"", "debug"}, Port : {0, 7},
                       Key : {"", "x"}]] :
        /\ sec["app"].Port = 0 /\ sec["app"].Key = ""
        /\ sec["s"].LogLevel = "" /\ sec["t"].LogLevel = ""}
Sources == [kind : {"yaml", "struct"}, sections : Sections]

\* the value a section holds for field f
SectionValue(sec, f) ==
    CASE f.name = "LogLevel" -> [f EXCEPT !.str = sec.LogLevel]
      [] f.name = "Port" -> [f EXCEPT !.num = sec.Port]
      [] OTHER -> [f EXCEPT !.str = sec.Key]

\* yaml.Node.Decode: the fields whose keys the section holds are set
Decode(cfg, sec) ==
    [i \in 1..Len(cfg) |-> IF isFieldEmpty(SectionValue(sec, cfg[i])) THEN cfg[i]
                           ELSE SectionValue(sec, cfg[i])]

\* copySameType: every field is overwritten with the source's
copySameType(cfg, sec) == [i \in 1..Len(cfg) |-> SectionValue(sec, cfg[i])]

\* the targets in names are visited in order: with copy, the section is
\* copied into the config first; DefaultsAndRequired is applied, and the
\* first error ends the visit
RECURSIVE BindEach(_, _, _, _)
BindEach(cfgs, names, secs, copy) ==
    IF names = << >> THEN [cfgs |-> cfgs, section |-> "", fields |-> << >>]
    ELSE LET name == Head(names)
             c == IF copy THEN copySameType(cfgs[name], secs[name]) ELSE cfgs[name]
             r == DefaultsAndRequired(c)
             next == [cfgs EXCEPT ![name] = r.cfg]
         IN  IF r.reqs # << >>
             THEN [cfgs |-> next, section |-> name, fields |-> r.reqs]
             ELSE BindEach(next, Tail(names), secs, copy)

\* app.New, RegisterService for "s" and "t", and Run with a configuration
\* source
ConfSetup(src) ==
    /\ confRes.pc = "none"
    /\ confCfg' = [t \in {"app", "s", "t"} |-> IF t = "app" THEN AppStruct ELSE SvcStruct]
    /\ confSrc' = src
    /\ confRes' = [confRes EXCEPT !.pc = "built"]
    /\ UNCHANGED confFrame

\* readConfigData: the "app" section is decoded if present and the app
\* config checked; then the sections of the services that have one are
\* decoded and every service's config is checked, in the order the map of
\* services is ranged over
readConfigData ==
    /\ confRes.pc = "built"
    /\ confSrc.kind = "yaml"
    /\ \E order \in {ConfServices, <<ConfServices[2], ConfServices[1]>>} :
          LET secs == confSrc.sections
              dec(cfgs, t) == IF secs[t].present THEN Decode(cfgs[t], secs[t]) ELSE cfgs[t]
              app == BindEach([confCfg EXCEPT !["app"] = dec(confCfg, "app")], <<"app">>,
                              secs, FALSE)
              decoded == [t \in DOMAIN app.cfgs |->
                             IF t = "app" THEN app.cfgs[t] ELSE dec(app.cfgs, t)]
              r == IF app.fields # << >> THEN app ELSE BindEach(decoded, order, secs, FALSE)
          IN  /\ confCfg' = r.cfgs
              /\ confRes' = [pc |-> "done", section |-> r.section, fields |-> r.fields]
    /\ UNCHANGED <<confSrc, confFrame>>

\* applyConfigStruct: the fields of the injected struct are visited in the
\* order of their declaration; a field tagged "app" or with a registered
\* service's name is copied into that config, which is then checked
applyConfigStruct ==
    /\ confRes.pc = "built"
    /\ confSrc.kind = "struct"
    /\ LET secs == confSrc.sections
           present == SelectSeq(<<"app">> \o ConfServices, LAMBDA t : secs[t].present)
           r == BindEach(confCfg, present, secs, TRUE)
       IN  /\ confCfg' = r.cfgs
           /\ confRes' = [pc |-> "done", section |-> r.section, fields |-> r.fields]
    /\ UNCHANGED <<confSrc, confFrame>>

\* ------------------------------------------------------------------------
\* Specifications of the configuration: DefaultsAndRequired called on a
\* struct, and the binding of the application's configs from a source
\* ------------------------------------------------------------------------
NextDefaults ==
    \/ \E cfg \in ConfStructs : MakeConfig(cfg)
    \/ CallDefaultsAndRequired

SpecDefaults == Init /\ [][NextDefaults]_vars

NextZero ==
    \/ \E cfg \in ZeroStructs : MakeConfig(cfg)
    \/ CallDefaultsAndRequired

SpecZero == Init /\ [][NextZero]_vars

NextConf ==
    \/ \E src \in Sources : ConfSetup(src)
    \/ readConfigData
    \/ applyConfigStruct

SpecConf == Init /\ [][NextConf]_vars

\* ------------------------------------------------------------------------
\* conftool.ParseEnvVars (conftool.go:42-55). Buffers and values are
\* sequences of one-character strings; the call is modelled at the grain of
\* the iterations of its loop
\* ------------------------------------------------------------------------
\* characters of \w that occur in the inputs
WordChars == {"a", "A"}
Pieces == {<<"{", "{", "a", "}", "}">>, <<"{", "{", "A", "}", "}">>,
           <<"{", "{", "a", "A", "}", "}">>, <<"{", "{">>, <<"}", "}">>, <<"a">>}
RECURSIVE Buffers(_)
Buffers(n) ==
    IF n = 0 THEN {<< >>}
    ELSE Buffers(n - 1) \cup {b \o p : b \in Buffers(n - 1), p \in Pieces}
\* the environment: the variable A is unset, or set to one of these values
EnvValues == {<< >>, <<"a">>, <<"{", "{">>, <<"{", "{", "A", "}", "}">>,
              <<"{", "{", "a", "}", "}">>}
Envs == {[set |-> FALSE, value |-> << >>]} \cup {[set |-> TRUE, value |-> v] : v \in EnvValues}

\* strings.ToUpper
ToUpper(s) == [i \in 1..Len(s) |-> IF s[i] = "a" THEN "A" ELSE s[i]]

\* os.Getenv: the empty string for a variable that is not set
GetenvEchoesName(env, name) == IF env.set /\ name = <<"A">> THEN env.value ELSE name
Getenv(env, name) == IF env.set /\ name = <<"A">> THEN env.value ELSE << >>

\* the length of the longest run of \w characters of buf that starts at i
RECURSIVE WordRun(_, _)
WordRun(buf, i) ==
    IF i <= Len(buf) /\ buf[i] \in WordChars THEN 1 + WordRun(buf, i + 1) ELSE 0

\* {{(\w+)}} matches at position i of buf
MatchAt(buf, i) ==
    LET n == WordRun(buf, i + 2)
    IN  /\ i + 3 + n <= Len(buf)
        /\ buf[i] = "{" /\ buf[i + 1] = "{"
        /\ n >= 1
        /\ buf[i + 2 + n] = "}" /\ buf[i + 3 + n] = "}"

\* rx.FindSubmatch: the leftmost match and its group, or nil
NoMatch == [found |-> FALSE, whole |-> << >>, group |-> << >>]
FindSubmatch(buf) ==
    LET at == {i \in 1..Len(buf) : MatchAt(buf, i)}
    IN  IF at = {} THEN NoMatch
        ELSE LET i == CHOOSE k \in at : \A j \in at : k <= j
                 n == WordRun(buf, i + 2)
             IN  [found |-> TRUE, whole |-> SubSeq(buf, i, i + 3 + n),
                  group |-> SubSeq(buf, i + 2, i + 1 + n)]

\* bytes.ReplaceAll: the non-overlapping occurrences of old, left to right
HasPrefixAt(buf, i, old) ==
    /\ i + Len(old) - 1 <= Len(buf)
    /\ SubSeq(buf, i, i + Len(old) - 1) = old
RECURSIVE ReplaceAllFrom(_, _, _, _)
ReplaceAllFrom(buf, old, new, i) ==
    IF i > Len(buf) THEN << >>
    ELSE IF HasPrefixAt(buf, i, old)
         THEN new \o ReplaceAllFrom(buf, old, new, i + Len(old))
         ELSE <<buf[i]>> \o ReplaceAllFrom(buf, old, new, i + 1)
ReplaceAll(buf, old, new) == ReplaceAllFrom(buf, old, new, 1)

envFrame == <<lifeFrame, pipeVars, watchVars, confVars, retryCall, mcache, cmgr, lmap>>

\* ParseEnvVars(b) is called, in environment env the first time and on its
\* own result the second time
ParseEnvVarsCall ==
    \/ /\ envCall.pc = "none"
       /\ \E env \in Envs, b \in Buffers(MaxPieces) :
            envCall' = [NoEnvCall EXCEPT !.pc = "loop", !.env = env, !.input = b,
                                         !.buf = b, !.call = 1]
       /\ UNCHANGED envFrame
    \/ /\ envCall.pc = "done" /\ envCall.call = 1
       /\ envCall' = [envCall EXCEPT !.pc = "loop", !.input = envCall.buf,
                                     !.first = envCall.buf, !.call = 2]
       /\ UNCHANGED envFrame

\* an iteration begins: rx.FindSubmatch(buf) finds a match
ParseEnvVarsMatch ==
    /\ envCall.pc = "loop"
    /\ \E matches \in {FindSubmatch(envCall.buf)} :
         /\ matches.found
         /\ envCall' = [envCall EXCEPT !.pc = "replace", !.matches = matches]
    /\ UNCHANGED envFrame

\* the iteration ends: the variable is looked up and every occurrence of the
\* match is replaced by its value
ParseEnvVarsReplace ==
    /\ envCall.pc = "replace"
    /\ \E name \in {ToUpper(envCall.matches.group)} :
         \E v \in {Getenv(envCall.env, name)} :
           envCall' = [envCall EXCEPT
               !.pc = "loop",
               !.buf = ReplaceAll(envCall.buf, envCall.matches.whole, v),
               !.matches = NoMatch,
               !.subs = envCall.subs \cup {[name |-> name, by |-> v]}]
    /\ UNCHANGED envFrame

\* matches == nil: break and return buf
ParseEnvVarsReturn ==
    /\ envCall.pc = "loop"
    /\ ~FindSubmatch(envCall.buf).found
    /\ envCall' = [envCall EXCEPT !.pc = "done"]
    /\ UNCHANGED envFrame

NextEnv ==
    \/ ParseEnvVarsCall
    \/ ParseEnvVarsMatch
    \/ ParseEnvVarsReplace
    \/ ParseEnvVarsReturn

\* the goroutine that called ParseEnvVars keeps being scheduled
SpecEnv == Init /\ [][NextEnv]_vars /\ WF_vars(ParseEnvVarsMatch \/ ParseEnvVarsReplace \/ ParseEnvVarsReturn)

\* ------------------------------------------------------------------------
\* retry.Policy.Run (retry/retry.go). Errors are named by strings, "nil" for
\* no error; the backoff's length is left out, each time.Sleep is one step
\* ------------------------------------------------------------------------
defaultAttempts == 5
\* Policy.MaxAttempts as the caller sets it
PolicyAttempts == 0..MaxPolicyAttempts
\* what fn returns: (err, fatal)
FnResults == [err : {"nil", "e1", "e2"}, fatal : {"nil", "fatal"}]

retryFrame == <<lifeFrame, pipeVars, watchVars, confVars, envCall, mcache, cmgr, lmap>>

\* the loop's test after a non-fatal error: another attempt is due
AttemptsLeftInclusive(attempt, maxAttempts) == attempt <= maxAttempts
AttemptsLeft(attempt, maxAttempts) == attempt < maxAttempts

\* p.Run(fn) up to the loop: the defaults are filled in
RetryRun(maxAttempts) ==
    /\ retryCall.pc = "none"
    /\ retryCall' = [NoRetryCall EXCEPT
           !.pc = "call",
           !.set = maxAttempts,
           !.MaxAttempts = IF maxAttempts = 0 THEN defaultAttempts ELSE maxAttempts]
    /\ UNCHANGED retryFrame

\* one pass of the loop: attempt++, fn(attempt), and the tests on what it returned
RetryAttempt(res) ==
    /\ retryCall.pc = "call"
    /\ LET attempt == retryCall.attempt + 1
           called == [retryCall EXCEPT !.attempt = attempt,
                                       !.args = Append(retryCall.args, attempt),
                                       !.outs = Append(retryCall.outs, res)]
       IN  retryCall' =
               IF res.fatal # "nil"
               THEN [called EXCEPT !.pc = "done", !.ret = res.fatal]
               ELSE IF res.err = "nil"
               THEN [called EXCEPT !.pc = "done", !.ret = "nil"]
               ELSE IF AttemptsLeft(attempt, retryCall.MaxAttempts)
               THEN [called EXCEPT !.pc = "sleep"]
               ELSE [called EXCEPT !.pc = "done", !.ret = res.err]
    /\ UNCHANGED retryFrame

\* time.Sleep(p.calcSleepTime(attempt)) returns
RetrySleep ==
    /\ retryCall.pc = "sleep"
    /\ retryCall' = [retryCall EXCEPT !.pc = "call", !.sleeps = retryCall.sleeps + 1]
    /\ UNCHANGED retryFrame

NextRetry ==
    \/ \E m \in PolicyAttempts : RetryRun(m)
    \/ \E res \in FnResults : RetryAttempt(res)
    \/ RetrySleep

SpecRetry == Init /\ [][NextRetry]_vars

\* ------------------------------------------------------------------------
\* Memory cache (cache/memcache/memcache.go). Every method holds the lock
\* for its whole body, so each call is one step. An entry's AddedAt is kept
\* as "old": it was added more than keepFirst ago
\* ------------------------------------------------------------------------
CacheKeys == {"a", "b", "c"}

\* reflect.TypeOf(value).Size() on a 64-bit build: cacheRec is an interface,
\* a string, an int64 and an int; *cacheRec is a pointer
valueSize(type) == IF type = "cacheRec" THEN 16 + 16 + 8 + 8 ELSE 8
RecordSize == valueSize("cacheRec")

cacheFrame == <<lifeFrame, pipeVars, watchVars, confVars, envCall, retryCall, cmgr, lmap>>

Stored(storage) == {k \in CacheKeys : storage[k].in}

\* New(size), for a size that holds a whole number of records
CacheNew(records) ==
    /\ mcache.pc = "none"
    /\ mcache' = [NoCache EXCEPT !.pc = "ready", !.maxSize = records * RecordSize]
    /\ UNCHANGED cacheFrame

\* cache.Get
CacheGet(key) ==
    /\ mcache.pc = "ready"
    /\ mcache.storage[key].in => mcache.storage[key].UseCount < MaxUse
    /\ mcache' = IF mcache.storage[key].in
                 THEN [mcache EXCEPT !.storage[key].UseCount = @ + 1]
                 ELSE mcache
    /\ UNCHANGED cacheFrame

\* cache.evict: the entries it may delete, the least used of the old ones
\* (the map's iteration order decides between equally used ones)
Prey(storage) ==
    {k \in Stored(storage) :
        /\ storage[k].old
        /\ \A j \in Stored(storage) : storage[j].old => storage[k].UseCount <= storage[j].UseCount}

\* for c.size+sz > c.maxSize { if !c.evict() { return } }: the states the loop
\* may end in, and whether Set goes on to store
RECURSIVE EvictLoop(_, _, _, _)
EvictLoop(storage, size, sz, maxSize) ==
    IF size + sz <= maxSize THEN {[storage |-> storage, size |-> size, ok |-> TRUE]}
    ELSE IF Prey(storage) = {} THEN {[storage |-> storage, size |-> size, ok |-> FALSE]}
    ELSE UNION {EvictLoop([storage EXCEPT ![k] = NoRec], size - valueSize("cacheRec"),
                          sz, maxSize) : k \in Prey(storage)}

\* cache.Set
CacheSet(key) ==
    /\ mcache.pc = "ready"
    /\ mcache.storage[key].in => mcache.storage[key].UseCount < MaxUse
    /\ LET prec == mcache.storage[key]
           found == prec.in
           useCount == IF found THEN prec.UseCount ELSE 0
           old == IF found THEN prec.old ELSE FALSE
           size == IF found THEN mcache.size - valueSize("cacheRec") ELSE mcache.size
           sz == valueSize("cacheRec")
       IN  \E r \in EvictLoop(mcache.storage, size, sz, mcache.maxSize) :
               mcache' =
                   IF r.ok
                   THEN [mcache EXCEPT
                            !.storage = [r.storage EXCEPT
                                ![key] = [in |-> TRUE, old |-> old, UseCount |-> useCount + 1]],
                            !.size = r.size + sz]
                   ELSE [mcache EXCEPT !.storage = r.storage, !.size = r.size]
    /\ UNCHANGED cacheFrame

\* the size Del takes off: that of the value the map holds, a *cacheRec
DelSize == valueSize("*cacheRec")

\* cache.Del
CacheDel(key) ==
    /\ mcache.pc = "ready"
    /\ mcache.storage[key].in
    /\ mcache' = [mcache EXCEPT !.size = @ - DelSize, !.storage[key] = NoRec]
    /\ UNCHANGED cacheFrame

\* cache.Cleanup
CacheCleanup ==
    /\ mcache.pc = "ready"
    /\ mcache' = [mcache EXCEPT !.storage = [k \in CacheKeys |-> NoRec]]
    /\ UNCHANGED cacheFrame

\* keepFirst passes: every entry stored by now may be evicted
CacheKeepFirstPasses ==
    /\ mcache.pc = "ready"
    /\ mcache' = [mcache EXCEPT
           !.storage = [k \in CacheKeys |->
               IF mcache.storage[k].in THEN [mcache.storage[k] EXCEPT !.old = TRUE]
               ELSE mcache.storage[k]]]
    /\ UNCHANGED cacheFrame

NextCache ==
    \/ \E n \in 1..MaxRecords : CacheNew(n)
    \/ \E k \in CacheKeys : CacheGet(k)
    \/ \E k \in CacheKeys : CacheSet(k)
    \/ \E k \in CacheKeys : CacheDel(k)
    \/ CacheCleanup
    \/ CacheKeepFirstPasses

SpecCache == Init /\ [][NextCache]_vars

\* ------------------------------------------------------------------------
\* Container manager (containermanager). One container, created once by
\* CreateAndRunContainer; Execute is called on it from several goroutines.
\* The steps of Execute are its calls of the registry's locked methods and
\* of the docker client, whose results are inputs
\* ------------------------------------------------------------------------
CmID == "c1"
ExitCodes == {0, 2}

cmFrame == <<lifeFrame, pipeVars, watchVars, confVars, envCall, retryCall, mcache, lmap>>

\* a setBusy that never refuses
setBusyUnchecked(containers, containerID) ==
    [containers |-> [containers EXCEPT ![containerID] = "busy"], err |-> "nil"]

\* setBusy: an ID the map does not hold reads as idle
setBusy(containers, containerID) ==
    IF containers[containerID] = "busy"
    THEN [containers |-> containers, err |-> "ErrContainerBusy"]
    ELSE [containers |-> [containers EXCEPT ![containerID] = "busy"], err |-> "nil"]

\* setIdle
setIdle(containers, containerID) ==
    IF containers[containerID] = "none" THEN containers
    ELSE [containers EXCEPT ![containerID] = "idle"]

registerContainer(containers, containerID) == [containers EXCEPT ![containerID] = "idle"]
unregisterContainer(containers, containerID) == [containers EXCEPT ![containerID] = "none"]

\* caller x's call returns
Returns(x, code, err) ==
    [cmgr.calls EXCEPT ![x].pc = "returned", ![x].code = code, ![x].err = err]

\* New, and CreateAndRunContainer succeeding: the container runs and is registered
CmCreateAndRunContainer ==
    /\ cmgr.pc = "none"
    /\ cmgr' = [cmgr EXCEPT !.pc = "ready", !.docker = "running",
                            !.containers = registerContainer(cmgr.containers, CmID)]
    /\ UNCHANGED cmFrame

\* Execute is called: the test of pipe.StdOut
CmExecute(x, stdOut) ==
    /\ cmgr.pc = "ready"
    /\ cmgr.calls[x].pc \in {"idle", "returned"}
    /\ cmgr.calls[x].td = "none" /\ cmgr.calls[x].stop = "none"
    /\ cmgr' = [cmgr EXCEPT !.calls =
           IF stdOut THEN [cmgr.calls EXCEPT ![x].pc = "setBusy", ![x].code = 0, ![x].err = "nil"]
           ELSE Returns(x, 0, "ErrStdoutChannelNotSet")]
    /\ UNCHANGED cmFrame

\* createExecutor: cm.setBusy(containerID); Execute wraps its error
CmSetBusy(x) ==
    /\ cmgr.calls[x].pc = "setBusy"
    /\ LET r == setBusy(cmgr.containers, CmID)
       IN  cmgr' = [cmgr EXCEPT
               !.containers = r.containers,
               !.calls = IF r.err = "nil" THEN [cmgr.calls EXCEPT ![x].pc = "create"]
                         ELSE Returns(x, 0, r.err)]
    /\ UNCHANGED cmFrame

\* what the docker daemon answers to a call about the container
DockerAnswers == IF cmgr.docker = "running" THEN {"ok", "error"} ELSE {"NoSuchContainer", "error"}

\* createExecutor: ContainerExecCreate, and Execute's test of its error
CmExecCreate(x, answer) ==
    /\ cmgr.calls[x].pc = "create"
    /\ answer \in DockerAnswers
    /\ cmgr' = [cmgr EXCEPT !.calls =
           CASE answer = "ok" -> [cmgr.calls EXCEPT ![x].pc = "attach"]
             [] answer = "NoSuchContainer" -> [cmgr.calls EXCEPT ![x].pc = "unregister"]
             [] OTHER -> Returns(x, 0, "create executor")]
    /\ UNCHANGED cmFrame

\* Execute: cm.unregisterContainer(containerID) after "No such container"
CmExecUnregister(x) ==
    /\ cmgr.calls[x].pc = "unregister"
    /\ cmgr' = [cmgr EXCEPT !.containers = unregisterContainer(cmgr.containers, CmID),
                            !.calls = Returns(x, 0, "ErrContainerDoesNotExist")]
    /\ UNCHANGED cmFrame

\* execAttach: ContainerExecAttach
CmExecAttach(x, ok) ==
    /\ cmgr.calls[x].pc = "attach"
    /\ cmgr' = [cmgr EXCEPT !.calls =
           IF ok THEN [cmgr.calls EXCEPT ![x].pc = "stats"]
           ELSE Returns(x, 0, "ContainerExecAttach")]
    /\ UNCHANGED cmFrame

\* execAttach: getCurrentStats, then the output is streamed
CmGetStats(x, ok) ==
    /\ cmgr.calls[x].pc = "stats"
    /\ cmgr' = [cmgr EXCEPT !.calls =
           IF ok THEN [cmgr.calls EXCEPT ![x].pc = "streaming"]
           ELSE Returns(x, 0, "get zero state")]
    /\ UNCHANGED cmFrame

\* execAttach's loop: doneStreaming is closed
CmDoneStreaming(x) ==
    /\ cmgr.calls[x].pc = "streaming"
    /\ cmgr' = [cmgr EXCEPT !.calls[x].pc = "consumed"]
    /\ UNCHANGED cmFrame

\* execAttach's loop: checkLimits reports a limit exceeded; the streaming
\* is stopped and StopContainer is started in a goroutine
CmLimitExceeded(x) ==
    /\ cmgr.calls[x].pc = "streaming"
    /\ cmgr' = [cmgr EXCEPT !.calls[x].pc = "consumedLimit", !.calls[x].stop = "stop"]
    /\ UNCHANGED cmFrame

\* pipe.Consumed <- ...: the reader takes the value; after a limit was
\* exceeded Execute returns 301 and the error
CmConsumedSent(x) ==
    /\ cmgr.calls[x].pc \in {"consumed", "consumedLimit"}
    /\ cmgr' = [cmgr EXCEPT !.calls =
           IF cmgr.calls[x].pc = "consumed" THEN [cmgr.calls EXCEPT ![x].pc = "inspect"]
           ELSE Returns(x, 301, "limit exceeded")]
    /\ UNCHANGED cmFrame

\* ContainerExecInspect; on success teardown is started in a goroutine and
\* Execute returns the exit code
CmExecInspect(x, ok, code) ==
    /\ cmgr.calls[x].pc = "inspect"
    /\ cmgr' = [cmgr EXCEPT !.calls =
           IF ok THEN [Returns(x, code, "nil") EXCEPT ![x].td = "killAll"]
           ELSE Returns(x, 300, "ContainerExecInspect")]
    /\ UNCHANGED cmFrame

\* teardown: killAll returns
CmKillAll(x) ==
    /\ cmgr.calls[x].td = "killAll"
    /\ cmgr' = [cmgr EXCEPT !.calls[x].td = "setIdle"]
    /\ UNCHANGED cmFrame

\* teardown: cm.setIdle(containerID)
CmSetIdle(x) ==
    /\ cmgr.calls[x].td = "setIdle"
    /\ cmgr' = [cmgr EXCEPT !.containers = setIdle(cmgr.containers, CmID),
                            !.calls[x].td = "none"]
    /\ UNCHANGED cmFrame

\* StopContainer(containerID, false) up to ContainerRemove: it gives up when
\* the registry does not hold the container or when the daemon refuses to
\* stop or to remove it
CmStopContainer(x, ok) ==
    /\ cmgr.calls[x].stop = "stop"
    /\ cmgr' = IF cmgr.containers[CmID] # "none" /\ ok /\ cmgr.docker = "running"
               THEN [cmgr EXCEPT !.docker = "removed", !.calls[x].stop = "unregister"]
               ELSE [cmgr EXCEPT !.calls[x].stop = "none"]
    /\ UNCHANGED cmFrame

\* StopContainer: cm.unregisterContainer(containerID)
CmStopUnregister(x) ==
    /\ cmgr.calls[x].stop = "unregister"
    /\ cmgr' = [cmgr EXCEPT !.containers = unregisterContainer(cmgr.containers, CmID),
                            !.calls[x].stop = "none"]
    /\ UNCHANGED cmFrame

NextCm ==
    \/ CmCreateAndRunContainer
    \/ \E x \in Callers, stdOut \in BOOLEAN : CmExecute(x, stdOut)
    \/ \E x \in Callers : CmSetBusy(x)
    \/ \E x \in Callers, answer \in {"ok", "NoSuchContainer", "error"} : CmExecCreate(x, answer)
    \/ \E x \in Callers : CmExecUnregister(x)
    \/ \E x \in Callers, ok \in BOOLEAN : CmExecAttach(x, ok)
    \/ \E x \in Callers, ok \in BOOLEAN : CmGetStats(x, ok)
    \/ \E x \in Callers : CmDoneStreaming(x)
    \/ \E x \in Callers : CmLimitExceeded(x)
    \/ \E x \in Callers : CmConsumedSent(x)
    \/ \E x \in Callers, ok \in BOOLEAN, code \in ExitCodes : CmExecInspect(x, ok, code)
    \/ \E x \in Callers : CmKillAll(x)
    \/ \E x \in Callers : CmSetIdle(x)
    \/ \E x \in Callers, ok \in BOOLEAN : CmStopContainer(x, ok)
    \/ \E x \in Callers : CmStopUnregister(x)

SpecCm == Init /\ [][NextCm]_vars

\* ------------------------------------------------------------------------
\* limitmap.LimitMap (limitmap/limitmap.go). Inc, Dec and Value hold the
\* lock for their whole body, so concurrent calls take effect one at a time;
\* the callers use one limit
\* ------------------------------------------------------------------------
LimitKeys == {"k1", "k2"}

lmFrame == <<lifeFrame, pipeVars, watchVars, confVars, envCall, retryCall, mcache, cmgr>>

\* s.lmap[key]: zero for a key the map does not hold
Lookup(m, key) == IF m[key].in THEN m[key].n ELSE 0

\* Dec's step down without its test
decrementUnguarded(n) == n - 1

\* Dec: if n > 0 { n-- }
decrement(n) == IF n > 0 THEN n - 1 ELSE n

\* New(), and the limit the callers will pass
LmNew(limit) ==
    /\ lmap.pc = "none"
    /\ lmap' = [NoLimitMap EXCEPT !.pc = "ready", !.limit = limit]
    /\ UNCHANGED lmFrame

\* LimitMap.Inc(key, limit)
LmInc(key) ==
    /\ lmap.pc = "ready"
    /\ LET n == Lookup(lmap.lmap, key) + 1
       IN  lmap' = IF n > lmap.limit
                   THEN [lmap EXCEPT !.last = [op |-> "Inc", key |-> key, ok |-> FALSE, n |-> 0]]
                   ELSE [lmap EXCEPT !.lmap[key] = [in |-> TRUE, n |-> n],
                                     !.last = [op |-> "Inc", key |-> key, ok |-> TRUE, n |-> 0]]
    /\ UNCHANGED lmFrame

\* LimitMap.Dec(key)
LmDec(key) ==
    /\ lmap.pc = "ready"
    /\ LET n == decrement(Lookup(lmap.lmap, key))
       IN  lmap' = [lmap EXCEPT
               !.lmap[key] = IF n = 0 THEN [in |-> FALSE, n |-> 0] ELSE [in |-> TRUE, n |-> n],
               !.last = [op |-> "Dec", key |-> key, ok |-> TRUE, n |-> n]]
    /\ UNCHANGED lmFrame

\* LimitMap.Value(key)
LmValue(key) ==
    /\ lmap.pc = "ready"
    /\ lmap' = [lmap EXCEPT
           !.last = [op |-> "Value", key |-> key, ok |-> TRUE, n |-> Lookup(lmap.lmap, key)]]
    /\ UNCHANGED lmFrame

NextLimitMap ==
    \/ \E limit \in 0..MaxLimit : LmNew(limit)
    \/ \E key \in LimitKeys : LmInc(key)
    \/ \E key \in LimitKeys : LmDec(key)
    \/ \E key \in LimitKeys : LmValue(key)

SpecLimitMap == Init /\ [][NextLimitMap]_vars

\* ------------------------------------------------------------------------
\* Properties
\* ------------------------------------------------------------------------
\* the reporter of every registered name was most recently told Ready
AllLastReady == \A n \in DOMAIN lastCall : lastCall[n] = "Ready"

\* C1: IsReady() is true exactly when, for every registered name, the last
\* of Ready/NotReady called on that name's reporter was Ready (a name on
\* which neither was called counts as not ready).
C1_IsReadyIffAllLastReady == IsReady <=> AllLastReady

\* C1 witness: after toggling, one reporter is ready and another is not
C1_Witness ==
    /\ \E n \in DOMAIN lastCall : lastCall[n] = "NotReady"
    /\ \E n \in DOMAIN lastCall : lastCall[n] = "Ready"
    /\ \E n \in DOMAIN lastCall : lastCall[n] = "none"
    /\ deadCalled
    /\ lastGet.err = "errAlreadyRegistered"

\* C2: the ops server answers GET /ready with 200 exactly when every
\* reporter call that returned before the handler evaluates IsReady left all
\* registered names ready, and with 500 otherwise; GET /alive likewise with
\* 200 exactly when no Dead call has returned.
C2_ProbeReflectsStatus ==
    [][(opsReq.st = "accepted" /\ opsReq'.st = "answered") =>
         opsReq'.code = (IF opsReq.path = "/ready"
                         THEN (IF AllLastReady THEN 200 ELSE 500)
                         ELSE (IF deadCalled THEN 500 ELSE 200))]_vars

\* C2 witness: /ready was answered 500 after a reporter went back to not ready
C2_Witness ==
    /\ opsReq.st = "answered"
    /\ opsReq.path = "/ready"
    /\ opsReq.code = 500
    /\ \E n \in DOMAIN lastCall : lastCall[n] = "NotReady"

\* C3: once the watcher has received a signal the scope is cancelled (the
\* context every worker's Run was given), and when the services return on
\* cancellation the orchestrator's Run eventually returns.
C3_SignalCancelsAndRunReturns ==
    /\ [](sigTaken => (ctxParentDone /\ ctxDone))
    /\ (sigTaken ~> (AllReturned /\ appPc = "returned"))

\* C3 witness: Run has returned after a signal, with two services
C3_Witness ==
    /\ sigTaken
    /\ appPc = "returned"
    /\ DOMAIN svcPc = RunNames

\* C4: when Run returns after a signal that was received while probes were
\* answered 200, there was a state after the signal in which the ops server
\* was still listening and IsReady was false (a probe would have been
\* answered 500).
C4_NotReadyObservableBeforeExit ==
    appPc = "returned" => probeView # "ready"

OkCalls(n) == {i \in 1..Len(regCalls) : regCalls[i].name = n /\ regCalls[i].err = "nil"}

FirstOk(n) == CHOOSE i \in OkCalls(n) : \A j \in OkCalls(n) : i <= j

LastOk(n) == CHOOSE i \in OkCalls(n) : \A j \in OkCalls(n) : j <= i

\* the invocations of the factory registered by call i, on the reference ref
Invocations(i, ref) ==
    {j \in 1..Len(factoryCalls) :
        /\ factoryCalls[j].name = regCalls[i].name
        /\ factoryCalls[j].factory = regCalls[i].factory
        /\ factoryCalls[j].cfg = ref}

\* C6 (as claimed): once Run has built the services, the factory of every
\* successful RegisterService call has been invoked exactly once, on the
\* reference the caller passed.
C6_FactoryOncePerRegistration ==
    appPc = "goHttp" =>
        \A i \in 1..Len(regCalls) :
            regCalls[i].err = "nil" =>
                Cardinality(Invocations(i, CallerRef(regCalls[i].cfg))) = 1

\* C6 (amended): once Run has built the services, exactly one factory has been
\* invoked for every name of the registry, namely the factory of the last
\* successful RegisterService call for that name; it received the caller's
\* pointer when that call passed cfg as a pointer, and a pointer to the copy
\* made by that call when it passed cfg by value.
C6_FactoryOncePerName ==
    appPc = "goHttp" =>
        /\ Len(factoryCalls) = Cardinality(DOMAIN serviceDefs)
        /\ \A n \in DOMAIN serviceDefs :
              LET i == LastOk(n)
                  ref == IF regCalls[i].cfg.ptr
                         THEN CallerRef(regCalls[i].cfg)
                         ELSE [at |-> "heap", obj |-> regCalls[i].cfg.obj, n |-> i]
              IN  Cardinality(Invocations(i, ref)) = 1

\* C6 witness: the services are built after a name was registered twice with
\* different factories and a config was passed by pointer
C6_Witness ==
    /\ appPc = "goHttp"
    /\ \E n \in DOMAIN serviceDefs :
          /\ FirstOk(n) # LastOk(n)
          /\ regCalls[FirstOk(n)].factory # regCalls[LastOk(n)].factory
          /\ regCalls[LastOk(n)].cfg.ptr

\* C7: a RegisterService call for a name that an earlier successful call
\* registered returns an error, and the registry keeps the config handle and
\* the factory of the earlier call.
C7_DuplicateNameRejected ==
    \A n \in DOMAIN serviceDefs :
        /\ OkCalls(n) = {FirstOk(n)}
        /\ serviceDefs[n].Factory = regCalls[FirstOk(n)].factory
        /\ serviceDefs[n].Config = Canonical(regCalls[FirstOk(n)].cfg, FirstOk(n))

\* C8: RegisterService accepts a name only if the whole name matches
\* [A-Za-z][A-Za-z_]*; "1bad", "" and "has-dash" are rejected with the
\* invalid-service-name error, and no rejected name enters the registry.
C8_OnlyIdentifiersAccepted ==
    /\ \A i \in 1..Len(regCalls) :
          /\ regCalls[i].err = "nil" => FullMatch(regCalls[i].name)
          /\ regCalls[i].name \in {Name1bad, NameEmpty, NameHasDash} =>
                regCalls[i].err = "errInvalidServiceName"
    /\ \A n \in DOMAIN serviceDefs : FullMatch(n)

\* C9: the router never dispatches a request while the routes of some
\* service are still being added.
C9_NoDispatchWhileAddingRoutes == ~apiReq.racing

\* some worker's Run has returned a non-nil error
WorkerErr ==
    \/ statRet = "err"
    \/ httpRet = "err"
    \/ \E n \in DOMAIN svcPc : svcPc[n] = "failed"

\* C10: once a worker has returned a non-nil error the scope is cancelled and
\* the group holds an error; the orchestrator does not abort, and when all
\* workers have been started and the services return on cancellation, Run
\* returns after logging the error.
C10_WorkerErrorCancelsAndIsLogged ==
    /\ [](WorkerErr => (ctxDone /\ egErr # NoErr /\ appPc # "fatal"))
    /\ []((WorkerErr /\ appPc = "returned") => "terminated with error" \in logs)
    /\ ((WorkerErr /\ appPc = "wait") ~> appPc = "returned")

\* C10 witness: Run has returned after a service failed, without any signal
C10_Witness ==
    /\ appPc = "returned"
    /\ \E n \in DOMAIN svcPc : svcPc[n] = "failed"
    /\ ~sigTaken
    /\ "terminated with error" \in logs

\* C11: when a service's Run ignores the cancellation and every other worker
\* has returned, the orchestrator does not wait for it: eg.Wait returns, so
\* that it marks not-ready, sleeps and returns from Run
OnlyStuckLeft ==
    /\ statPc = "returned"
    /\ httpPc = "returned"
    /\ sigPc = "returned"
    /\ \A n \in DOMAIN svcPc : svcPc[n] \in {"returned", "failed", "stuck"}
    /\ \E n \in DOMAIN svcPc : svcPc[n] = "stuck"

C11_OrchestratorPassesStuckService ==
    (appPc = "wait" /\ OnlyStuckLeft) => ENABLED EgWait

\* C12: before the first signal is delivered the answer of GET /ready turns
\* from 500 to 200 at most once
C12_ReadyTurns200AtMostOnce == readyUps # "again"

\* C12 as the code has it: before the first signal the answer of GET /ready
\* turns from 500 to 200 only in a step that is a Ready() call making its
\* own entry true, and never before the orchestrator's own Ready()
C12_ReadyTurns200OnlyByReady ==
    [][ReadyTurns200 =>
         /\ \E n \in DOMAIN ready :
              /\ ~ready[n]
              /\ ready' = [ready EXCEPT ![n] = TRUE]
              /\ lastCall'[n] = "Ready"
         /\ lastCall'[AppName] = "Ready"]_vars

\* C12 witness: /ready has turned to 200 once while a service is running and
\* no signal was delivered
C12_Witness ==
    /\ readyUps = "once"
    /\ IsReady
    /\ statSrv = "listening"
    /\ ~sigCh /\ ~sigTaken
    /\ \E n \in DOMAIN svcPc : svcPc[n] = "running"

\* C13: GetServiceReporter for a registered name returns the
\* already-registered error and leaves the readiness map and the alive bit
\* as they are; no step removes a name from the map
C13_DuplicateRefusedAndNothingRemoved ==
    [][/\ (lastGet' # lastGet /\ lastGet'.name \in DOMAIN ready) =>
            (lastGet'.err = "errAlreadyRegistered" /\ ready' = ready /\ alive' = alive)
       /\ (lastGet' # lastGet /\ lastGet'.name \notin DOMAIN ready) =>
            lastGet'.err = "nil"
       /\ DOMAIN ready \subseteq DOMAIN ready']_vars

\* C13 witness: a second GetServiceReporter for a name that was ready was
\* refused, and the name is still ready
C13_Witness ==
    /\ lastGet.err = "errAlreadyRegistered"
    /\ lastGet.name \in DOMAIN ready
    /\ ready[lastGet.name]

\* C14: IsAlive() is true until some reporter's Dead() is called and false
\* in every state after that
C14_AliveUntilDeadThenNever ==
    /\ [](IsAlive <=> ~deadCalled)
    /\ [][~IsAlive => ~IsAlive']_vars

\* C14 witness: Dead was called, and afterwards every reporter was told Ready
C14_Witness ==
    /\ deadCalled
    /\ ~IsAlive
    /\ DOMAIN ready # {}
    /\ IsReady

\* the step in which the handler of the request on connection c finishes
Finishes(c) == req[c].phase = "handler" /\ req'[c].phase = "done"

\* the step in which a request arrives on connection c
Arrives(c) == req'[c].id # req[c].id /\ req'[c].id # 0

\* the middleware or handler that wrote the first reply of request r
FirstBy(r) == IF r.writes = << >> THEN "nobody" ELSE r.writes[1].by

\* C15: every request dispatched to a registered endpoint adds exactly one
\* observation to that endpoint's latency histogram, whether its handler
\* succeeds, returns an error or panics
C15_LatencyObservedOncePerRequest ==
    [][\A c \in Conns :
         Finishes(c) => latency' = [latency EXCEPT ![req[c].target] = @ + 1]]_vars

\* C16: error_count of the request's endpoint grows by one when the handler
\* returns an error, whatever the status code, and does not change when it
\* returns nil; no other step changes it
C16_ErrorCountedIffHandlerError ==
    [][/\ \A c \in Conns :
            Finishes(c) =>
                errorsCounter' =
                    [errorsCounter EXCEPT ![req[c].target] =
                        IF req'[c].result = "err" THEN @ + 1 ELSE @]
       /\ (\A c \in Conns : ~Finishes(c)) => errorsCounter' = errorsCounter]_vars

\* C16 witness: the only request so far returned an error with status 200
\* and was counted
C16_Witness ==
    \E c \in Conns :
        /\ served = 1
        /\ req[c].result = "err"
        /\ req[c].code = 200
        /\ errorsCounter[req[c].target] = 1

ExpectedWriter(r) ==
    CASE r.result = "ok" -> {[by |-> "handler", code |-> 200]}
      [] r.result = "err" -> {[by |-> "instrumentation", code |-> r.code]}
      [] r.result = "panic" -> {[by |-> "panicLogger", code |-> 500]}
      [] OTHER -> {[by |-> "connLimiter", code |-> 429],
                   [by |-> "rateLimiter", code |-> 429],
                   [by |-> "auth", code |-> 401]}

OpenConns == {c \in Conns : connState[c] \in {"new", "active", "idle"}}

\* C19: the connection cap answers 429 only when more than OpenConnLimit
\* connections are open, a rejected request does not reach the handler, and
\* the count is the number of connections that are new and neither hijacked
\* nor closed
C19_RejectsOnlyAboveLimit ==
    /\ currentlyOpen = Cardinality(OpenConns)
    /\ \A c \in Conns :
          (req[c].phase = "done" /\ FirstBy(req[c]) = "connLimiter") =>
              /\ ~req[c].handled
              /\ req[c].n > httpCfg.OpenConnLimit

\* C20: with a token configured, a request that passed the limiters and
\* whose Api-Token header differs from the token is answered 401 by
\* authentication alone, never enters a handler and changes no metric;
\* without a token authentication answers no request
C20_WrongTokenStopsAt401 ==
    /\ [](\A c \in Conns :
            /\ req[c].handled => (httpCfg.Token = "" \/ req[c].hdr = httpCfg.Token)
            /\ FirstBy(req[c]) = "auth" => httpCfg.Token # "")
    /\ [][\A c \in Conns :
            (/\ Arrives(c)
             /\ httpCfg.Token # ""
             /\ req'[c].hdr # httpCfg.Token
             /\ FirstBy(req'[c]) \notin {"connLimiter", "rateLimiter"})
            => /\ req'[c].phase = "done"
               /\ req'[c].writes = << [by |-> "auth", code |-> 401] >>
               /\ ~req'[c].handled
               /\ latency' = latency
               /\ errorsCounter' = errorsCounter]_vars

\* C20 witness: a request with a wrong token was answered 401
C20_Witness ==
    \E c \in Conns :
        /\ httpCfg.Token = Secret
        /\ req[c].hdr = "wrong"
        /\ req[c].phase = "done"
        /\ req[c].writes = << [by |-> "auth", code |-> 401] >>

\* the order of the layers the claims name
Layers == <<"connLimiter", "rateLimiter", "auth", "sentry", "panicLogger", "router",
            "instrumentation", "handler">>

\* the position of a layer in that order
LayerIndex(layer) == CHOOSE i \in 1..Len(Layers) : Layers[i] = layer

\* C21: the layers a request passed are a beginning of the order connection
\* cap, rate limit, authentication, error reporter, panic capture, router,
\* instrumentation, handler; a request rejected by the cap, the rate limiter
\* or authentication passed no layer after the rejecting one, a request in a
\* handler passed them all, and the arrival of a request the cap rejects
\* leaves the limiter's tokens as they were
C21_LayersInOrder ==
    /\ [](\A c \in Conns :
            LET r == req[c]
            IN  r.phase # "none" =>
                    /\ r.ran = SubSeq(Layers, 1, Len(r.ran))
                    /\ (~r.handled /\ FirstBy(r) \in {"connLimiter", "rateLimiter", "auth"})
                          => /\ Len(r.ran) = LayerIndex(FirstBy(r))
                             /\ r.writes = << [by |-> FirstBy(r),
                                              code |-> IF FirstBy(r) = "auth"
                                                       THEN 401 ELSE 429] >>
                    /\ r.handled => r.ran = Layers)
    /\ [][\A c \in Conns :
            (Arrives(c) /\ FirstBy(req'[c]) = "connLimiter")
            => limiterTokens' = limiterTokens]_vars

\* C21 witness: the first request was rejected by the cap alone and the
\* limiter's bucket is still full
C21_Witness ==
    \E c \in Conns :
        /\ served = 1
        /\ req[c].ran = <<"connLimiter">>
        /\ Status(req[c]) = 429
        /\ limiterTokens = Burst(httpCfg.RateLimit)

\* C23: a handler's panic, after panic capture logged it and wrote the 500
\* body, is raised again and seen by the error reporter's wrapper
C23_PanicReachesReporter ==
    \A c \in Conns :
        req[c].result = "panic" =>
            \E i \in 1..Len(req[c].panic.seenBy) : req[c].panic.seenBy[i] = "sentry"

\* C24: a handler that panics with message m before writing is answered
\* 500 with the body {"error": m}, for a string and for an error value
C24_PanicBodyCarriesMessage ==
    \A c \in Conns :
        (req[c].result = "panic" /\ ~req[c].wrote) =>
            /\ Status(req[c]) = 500
            /\ req[c].panic.body = [error |-> PanicMsg]

\* C25: the error log entry of panic capture carries the request identifier
\* instrumentation assigned to the panicking request
C25_PanicLogCarriesRequestID ==
    \A c \in Conns :
        req[c].result = "panic" =>
            /\ req[c].rid # << >>
            /\ req[c].panic.rid = req[c].rid

\* the ceiling of 1.2 * rateLimit
CeilBurst(rateLimit) == (rateLimit * 12 + 9) \div 10

\* C26: the limiter's burst, the size of its full bucket, is the ceiling
\* of 1.2 times the configured rate
C26_BurstIsCeiling ==
    /\ Burst(httpCfg.RateLimit) = CeilBurst(httpCfg.RateLimit)
    /\ limiterTokens <= CeilBurst(httpCfg.RateLimit)

\* C28: when its context is cancelled the ops server's Run shuts the server
\* down within the bounded drain and returns no error, also when the drain
\* runs out of time, and from then on the port accepts no probe
C28_CancelledRunReturnsNil ==
    /\ [][(statPc = "shutdown" /\ statPc' = "returned") => statRet' = "nil"]_vars
    /\ [][(statPc \in {"shutdown", "returned"} /\ statSrv = "closed"
           /\ opsReq'.st = "accepted") => opsReq.st = "accepted"]_vars

\* the rank of a server state in Created, Listening, Draining, Terminated
Rank(srv) == CASE srv = "bound" -> 1 [] srv = "serving" -> 2 [] srv = "draining" -> 3
               [] OTHER -> 4

\* C27: the API server moves forward through created, listening, draining
\* and terminated, and draining begins only in Run's cancellation branch;
\* Run returns nil when Serve ended with ErrServerClosed and an error when
\* Serve failed otherwise; once its context is cancelled Run calls
\* Shutdown and returns nil afterwards, having logged the drain's failure
\* when a request was still being served; a returned Run leaves the server
\* terminated
C27_RunLifecycle ==
    /\ [](/\ httpPc = "returned" => (httpSrv \in {"closed", "failed"}
                                     /\ httpRet \in {"nil", "err"})
          /\ httpRet = "err" => httpSrv = "failed"
          /\ httpSrv = "draining" => httpPc = "shutdown")
    /\ [][/\ Rank(httpSrv') >= Rank(httpSrv)
          /\ (httpPc = "select" /\ httpPc' = "returned")
                => httpRet' = IF httpSrv = "closed" THEN "nil" ELSE "err"
          /\ (httpPc = "select" /\ httpPc' = "shutdown") => ctxDone
          /\ (httpPc = "shutdown" /\ httpPc' = "returned")
                => /\ httpRet' = "nil"
                   /\ (\E c \in Conns : connState[c] = "active")
                         => "failed to shutdown server" \in logs']_vars

\* C27 witness: Run returned nil although the drain timed out on a request
\* whose handler is still running
C27_Witness ==
    /\ httpPc = "returned"
    /\ httpRet = "nil"
    /\ httpSrv = "closed"
    /\ "failed to shutdown server" \in logs
    /\ \E c \in Conns : connState[c] = "active" /\ req[c].phase = "handler"

\* C22: whatever the interleaving of the connection state changes, the
\* open-connection gauge equals the opened counter minus the closed counter
\* in every state, and equals the atomic count of open connections whenever
\* no state change is in progress
C22_GaugeMatchesCounters ==
    /\ cwMetrics.gauge = cwMetrics.opened - cwMetrics.closed
    /\ (\A c \in Conns : cwCall[c].pc = "idle") => cwMetrics.gauge = currentlyOpen

\* a field that holds the zero value of its type
Unset(f) ==
    \/ f.kind = "string" /\ f.str = ""
    \/ f.kind = "int" /\ f.num = 0
    \/ f.kind = "bool" /\ ~f.flag
    \/ f.kind = "slice" /\ f.items = << >>

\* a field tagged required and without a default tag
Mandatory(f) == f.required = "true" /\ ~f.hasDefault

\* C29: after a binding that succeeded, from a YAML document or from an
\* injected struct, the app config and the config of every registered
\* service hold no unset field that has a default or is required, whether
\* or not the source has a section for them; a config whose section is
\* missing holds its defaults
C29_BoundConfigsPopulated ==
    (confSrc.kind # "none" /\ confRes.pc = "done" /\ confRes.fields = << >>) =>
        \A t \in {"app", "s", "t"} :
            \A i \in 1..Len(confCfg[t]) :
                LET f == confCfg[t][i]
                IN  /\ (f.hasDefault \/ Mandatory(f)) => ~Unset(f)
                    /\ (~confSrc.sections[t].present /\ f.name = "LogLevel")
                          => f.str = "info"
                    /\ (~confSrc.sections[t].present /\ f.name = "Port") => f.num = 5

\* the fields of a struct of ConfStructs that are not structs, and their
\* names from the root
LeafAt(cfg, k) == IF k = 3 THEN cfg[3].fields[1] ELSE cfg[k]
LeafName(cfg, k) == IF k = 3 THEN <<cfg[3].name, cfg[3].fields[1].name>> ELSE <<cfg[k].name>>

C31_SubstitutionIdempotent ==
    /\ envCall.pc = "done" => ~FindSubmatch(envCall.buf).found
    /\ \A s \in envCall.subs :
           ~(envCall.env.set /\ s.name = <<"A">>) => s.by = << >>
    /\ envCall.pc = "done" /\ envCall.call = 2 => envCall.buf = envCall.first
\* the second call has returned, after a first call that replaced a token of
\* an unset variable and a token of the set one
C31_Witness ==
    /\ envCall.pc = "done" /\ envCall.call = 2
    /\ envCall.env.set
    /\ \E s \in envCall.subs : s.name # <<"A">>
    /\ \E s \in envCall.subs : s.name = <<"A">> /\ s.by # << >>

\* C38: every call of ParseEnvVars returns
C38_ParseEnvVarsTerminates == (envCall.pc = "loop") ~> (envCall.pc = "done")

\* fn returned an error that is not fatal
Retryable(res) == res.fatal = "nil" /\ res.err # "nil"
\* C32: Policy.Run calls fn with attempt = 1, 2, ... and at most MaxAttempts
\* times (5 when MaxAttempts was left 0); it returns at the first fatal error
\* (that error), at the first success (nil), or when the attempt number
\* reaches MaxAttempts (the last non-fatal error); and it has slept once
\* between consecutive attempts and not after the last one
C32_RunStopsAtFirst ==
    LET n == Len(retryCall.args)
    IN  /\ retryCall.pc # "none" =>
               retryCall.MaxAttempts = (IF retryCall.set = 0 THEN 5 ELSE retryCall.set)
        /\ \A i \in 1..n : retryCall.args[i] = i
        /\ n <= retryCall.MaxAttempts
        /\ \A i \in 1..(n - 1) : Retryable(retryCall.outs[i])
        /\ retryCall.pc = "call" => retryCall.sleeps = n
        /\ retryCall.pc = "sleep" =>
               retryCall.sleeps = n - 1 /\ Retryable(retryCall.outs[n]) /\ n < retryCall.MaxAttempts
        /\ retryCall.pc = "done" =>
               /\ n >= 1 /\ retryCall.sleeps = n - 1
               /\ LET last == retryCall.outs[n]
                  IN  CASE last.fatal # "nil" -> retryCall.ret = last.fatal
                        [] last.fatal = "nil" /\ last.err = "nil" -> retryCall.ret = "nil"
                        [] OTHER -> n = retryCall.MaxAttempts /\ retryCall.ret = last.err
\* Run has returned the last error after using up MaxAttempts > 1 attempts
C32_Witness ==
    /\ retryCall.pc = "done" /\ retryCall.MaxAttempts > 1
    /\ Len(retryCall.args) = retryCall.MaxAttempts
    /\ retryCall.ret = "e2" /\ retryCall.outs[1].err = "e1"

\* C33: after any sequence of Set, Get, Del and Cleanup, Size() is the number
\* of stored entries times RecordSize() and is at most the maximum size
C33_SizeMatchesEntries ==
    mcache.pc = "ready" =>
        /\ mcache.size = Cardinality(Stored(mcache.storage)) * RecordSize
        /\ mcache.size <= mcache.maxSize

\* the step is service n's Run returning nil
ReturnsNil(n) == n \in DOMAIN svcPc /\ svcPc[n] = "running" /\ svcPc'[n] = "returned"
\* C34: a service's Run returning nil while the scope is not cancelled leaves
\* the scope uncancelled and the servers, the signal watcher, the other
\* services and the orchestrator where they were; and the scope is cancelled,
\* or the orchestrator past eg.Wait, only once a signal was received or a
\* worker returned an error
C34_NilReturnKeepsScope ==
    /\ [](ctxDone \/ appPc \in {"marking", "sleeping", "returned"}
              => sigTaken \/ egErr # NoErr)
    /\ [][\A n \in RunNames : ReturnsNil(n) /\ ~ctxDone =>
              /\ ~ctxDone' /\ ~ctxParentDone' /\ egErr' = egErr
              /\ UNCHANGED <<appPc, httpVars, statVars, sigPc>>
              /\ \A m \in DOMAIN svcPc \ {n} : svcPc'[m] = svcPc[m]]_vars
\* one service has returned nil and, with no signal and no error, the
\* servers, the other service and the orchestrator are still at work
C34_Witness ==
    /\ appPc = "wait" /\ ~ctxDone /\ egErr = NoErr /\ ~sigTaken
    /\ \E n, m \in DOMAIN svcPc : svcPc[n] = "returned" /\ svcPc[m] = "running"
    /\ httpSrv = "serving" /\ statSrv = "listening" /\ sigPc = "waiting"

\* C35: once the ops server's Run has returned, the goroutine it started for
\* ListenAndServe is not blocked handing over its result: no one is left to
\* receive from errCh, so a goroutine found sending then stays there forever
C35_ServeGoroutineEnds == statPc = "returned" => statGo # "sending"

\* the field f holding the value its default tag denotes in f's type, when
\* the tag denotes one
Denotes(f) ==
    CASE f.kind = "string" -> TRUE
      [] f.kind = "int" -> f.default \in {"5", "0", "1s"}
      [] f.kind = "bool" -> f.default \in {"true", "false"}
      [] f.kind = "slice" -> f.default # ""
WithDefault(f) ==
    CASE f.kind = "string" -> [f EXCEPT !.str = f.default]
      [] f.kind = "int" -> [f EXCEPT !.num = CASE f.default = "5" -> 5
                                              [] f.default = "1s" -> 1000000000
                                              [] OTHER -> 0]
      [] f.kind = "bool" -> [f EXCEPT !.flag = (f.default = "true")]
      [] f.kind = "slice" -> [f EXCEPT !.items = <<f.default>>]
\* DefaultsAndRequired is called on a struct of ZeroStructs
ZeroCall ==
    /\ confSrc.kind = "none" /\ confRes.pc = "built" /\ confRes'.pc = "done"
    /\ Len(confCfg) = 4

\* C39 as stated: a field that holds the zero value of its type (false, 0,
\* "", an empty slice) takes the value of its default tag when it has one,
\* and is named in the error when it is required and has no default
C39_ZeroTakesDefault ==
    [][ZeroCall =>
          \A k \in 1..4 :
              LET f == confCfg[k]
              IN  /\ (Unset(f) /\ f.hasDefault /\ Denotes(f)) => confCfg'[k] = WithDefault(f)
                  /\ (Unset(f) /\ Mandatory(f))
                        => \E i \in 1..Len(confRes'.fields) : confRes'.fields[i] = <<f.name>>
      ]_vars

\* C39 amended: a zero bool, int or string field takes the value of its
\* default tag; a zero slice stays empty whatever its default tag, without
\* an error; a zero field that is required and has no default is named in
\* the error; a field that is not zero is left alone
C39_ZeroTakesDefaultUnlessSlice ==
    [][ZeroCall =>
          \A k \in 1..4 :
              LET f == confCfg[k]
              IN  /\ (Unset(f) /\ f.hasDefault /\ Denotes(f) /\ f.kind # "slice")
                        => confCfg'[k] = WithDefault(f)
                  /\ (Unset(f) /\ f.kind = "slice") => confCfg'[k] = f
                  /\ (Unset(f) /\ Mandatory(f))
                        => \E i \in 1..Len(confRes'.fields) : confRes'.fields[i] = <<f.name>>
                  /\ (Unset(f) /\ f.hasDefault)
                        => \A i \in 1..Len(confRes'.fields) : confRes'.fields[i] # <<f.name>>
                  /\ ~Unset(f) => confCfg'[k] = f
      ]_vars
\* a call gave the zero Port and Name their defaults, left the empty Hosts
\* empty beside its default tag, and named the required Debug, which was false
C39_Witness ==
    /\ confSrc.kind = "none" /\ confRes.pc = "done" /\ Len(confCfg) = 4
    /\ confCfg[4].num = 5 /\ confCfg[3].str = "info"
    /\ confCfg[2].items = << >> /\ confCfg[2].hasDefault
    /\ confRes.fields = << <<"Debug">> >>

\* the Execute calls that have marked the container busy and not returned
Holders ==
    {x \in Callers : cmgr.calls[x].pc \in {"create", "unregister", "attach", "stats",
                                           "streaming", "consumed", "consumedLimit", "inspect"}}
\* no Execute is in progress and no goroutine started by one is still at work
CmQuiet ==
    \A x \in Callers : /\ cmgr.calls[x].pc \in {"idle", "returned"}
                       /\ cmgr.calls[x].td = "none" /\ cmgr.calls[x].stop = "none"

\* C36: once Execute has returned and the goroutines it started have ended,
\* the container is idle or out of the registry; left busy then, it stays
\* busy, since only an Execute that finds it not busy can start more work
C36_NotLeftBusy ==
    (CmQuiet /\ \E x \in Callers : cmgr.calls[x].pc = "returned")
        => cmgr.containers[CmID] # "busy"

LmCall(op, key) ==
    /\ lmap.pc = "ready"
    /\ lmap'.last.op = op /\ lmap'.last.key = key
    /\ lmap' # lmap

\* C40: every key the map holds counts between 1 and the limit, so every
\* counter is within 0..limit; an Inc that returns false changes nothing;
\* Dec on an absent key returns 0 and changes nothing; Dec returns the new
\* count, and a key whose count reaches 0 is removed from the map
C40_CounterWithinLimit ==
    /\ [](\A k \in LimitKeys :
              /\ lmap.lmap[k].in => (1 <= lmap.lmap[k].n /\ lmap.lmap[k].n <= lmap.limit)
              /\ 0 <= Lookup(lmap.lmap, k) /\ Lookup(lmap.lmap, k) <= lmap.limit)
    /\ [][\A k \in LimitKeys :
              /\ (LmCall("Inc", k) /\ ~lmap'.last.ok) => lmap'.lmap = lmap.lmap
              /\ (LmCall("Inc", k) /\ lmap'.last.ok)
                    => Lookup(lmap'.lmap, k) = Lookup(lmap.lmap, k) + 1
              /\ (LmCall("Dec", k) /\ ~lmap.lmap[k].in)
                    => (lmap'.last.n = 0 /\ lmap'.lmap = lmap.lmap)
              /\ (LmCall("Dec", k) /\ lmap.lmap[k].in)
                    => /\ lmap'.last.n = lmap.lmap[k].n - 1
                       /\ Lookup(lmap'.lmap, k) = lmap.lmap[k].n - 1
                       /\ lmap'.lmap[k].in = (lmap.lmap[k].n > 1)]_vars
\* a key was counted down to 0 and removed while the other key is at the
\* limit, where an Inc was refused
C40_Witness ==
    /\ lmap.limit = 2
    /\ lmap.last = [op |-> "Dec", key |-> "k1", ok |-> TRUE, n |-> 0]
    /\ ~lmap.lmap["k1"].in
    /\ lmap.lmap["k2"].n = 2

====
